---- MODULE Spec2Model ----
(***************************************************************************)
(* Model of the sender loop of apps/sender_bot.py (run_loop): the daily    *)
(* delivery store, the concurrent fetch with per-source retry, the merge   *)
(* by message key, and the sequential edit-before-send dispatch.           *)
(***************************************************************************)
EXTENDS Integers, Sequences, FiniteSets, TLC

\* ---------------------------------------------------------------------
\* Bounds of the model
\* ---------------------------------------------------------------------
MaxSteps == 4       \* delivery attempts (one group of one message) plus
                    \* changes of the environment explored in a behaviour
MaxDay == 2         \* calendar days 1..MaxDay (day 0 is "before the run")
MaxFetch == 1       \* rows a source holds for one fetch call
MaxStops == 1       \* process stops (crash or interrupt) that are explored
MaxTokCalls == 2    \* calls of get_or_refresh_account_token that are explored
MaxRounds == 2      \* fetch rounds of the two-account model that are explored

\* ---------------------------------------------------------------------
\* Value sets
\* ---------------------------------------------------------------------
Dest == {"D1", "D2"}
Accounts == <<"A1">>                  \* load_accounts(): enabled accounts
AccountNames == {Accounts[i] : i \in 1..Len(Accounts)}
ApiTokenSrc == "api_token"                  \* the shared session token source
Days == 0..MaxDay
Rows == { [thread |-> "T1", body |-> "b1"],
          [thread |-> "T1", body |-> "b2"],
          [thread |-> "T2", body |-> "b1"] }
GroupLists == { <<>>, <<"D1">>, <<"D1", "D2">> }   \* chat ids, no duplicates
AccountLists == { <<>>, Accounts }                   \* load_accounts() after a change
StartDates == {"2025-01-01", "2025-02-01"}           \* messages_start_date values
EnvStartDate == "2025-01-01"                         \* API_START_DATE of .env
Limits == {0, 1}                                     \* runtime_bot_limit values
EditResp == {"ok", "notmod", "err", "raise"}         \* editMessageText answers
SendResp == {"ok", "rate", "gone", "err", "raise"}   \* sendMessage answers

\* ---------------------------------------------------------------------
\* Pure helpers of sender_bot.py
\* ---------------------------------------------------------------------
msg_key(item) == <<item.thread, item.body>>
thread_key(item) == item.thread
Keys == {msg_key(r) : r \in Rows}
Threads == {thread_key(r) : r \in Rows}

EmptyMap == [x \in {} |-> 0]
EmptyStore == [seen_keys |-> {}, sent |-> <<>>,
               latest_by_thread |-> EmptyMap, delivered_by_msg |-> EmptyMap]

Get(f, k, dflt) == IF k \in DOMAIN f THEN f[k] ELSE dflt
Put(f, k, v) == [x \in (DOMAIN f) \cup {k} |-> IF x = k THEN v ELSE f[x]]
Range(s) == {s[i] : i \in 1..Len(s)}
Take(s, n) == SubSeq(s, 1, IF n < Len(s) THEN n ELSE Len(s))

\* fetch_messages: the rows of the answer, cut to the limit when limit > 0
FetchRows(rows, limit) == IF limit <= 0 THEN rows ELSE Take(rows, limit)

\* variant: the record on disk is not read back, a fresh store is returned
load_daily_store_Fresh(p, day) == EmptyStore

\* storage.get_daily via load_daily_store: the record of the day or a fresh one
load_daily_store(p, day) == IF day \in DOMAIN p THEN p[day] ELSE EmptyStore

\* variant: nothing is deleted
cleanup_old_daily_files_KeepAll(p, day) == p

\* cleanup_old_daily_files: delete every persisted day other than the current
cleanup_old_daily_files(p, day) == [d \in (DOMAIN p) \cap {day} |-> p[d]]

\* variant: the record is not written
save_daily_store_Lost(p, day, store) == p

\* save_daily_store / storage.set_daily: upsert of the whole record
save_daily_store(p, day, store) == Put(p, day, store)

\* uniq[msg_key(row)] = row over all_rows: a dict keeps the position of the
\* first insertion of a key and the value of the last one
RECURSIVE UniqRows(_, _)
UniqRows(rows, acc) ==
    IF rows = <<>> THEN acc
    ELSE LET r == Head(rows)
             hit == {i \in 1..Len(acc) : msg_key(acc[i]) = msg_key(r)}
         IN  IF hit = {} THEN UniqRows(Tail(rows), Append(acc, r))
             ELSE UniqRows(Tail(rows),
                           [i \in 1..Len(acc) |-> IF i \in hit THEN r ELSE acc[i]])

\* rows = list(uniq.values()) if current_limit <= 0 else ...[:current_limit]
MergedRows(all, limit) ==
    IF limit <= 0 THEN UniqRows(all, <<>>) ELSE Take(UniqRows(all, <<>>), limit)

\* delivered_set = set(delivered_by_msg.get(mkey, []))
DeliveredSet(store, k) == Get(store.delivered_by_msg, k, {})

\* variant: the delivered set is not consulted
MissingGroups_IgnoreDelivered(groups, delivered, invalid) ==
    SelectSeq(groups, LAMBDA g : g \notin invalid)

\* missing_groups: configured groups neither delivered nor invalid, in order
MissingGroups(groups, delivered, invalid) ==
    SelectSeq(groups, LAMBDA g : g \notin delivered /\ g \notin invalid)

\* variant: a task is built for every merged row, owed or not
RECURSIVE BuildTasks_NoFilter(_, _, _, _)
BuildTasks_NoFilter(rows, store, groups, invalid) ==
    IF rows = <<>> THEN <<>>
    ELSE <<[item |-> Head(rows),
            groups |-> MissingGroups(groups, DeliveredSet(store, msg_key(Head(rows))),
                                     invalid)]>>
         \o BuildTasks_NoFilter(Tail(rows), store, groups, invalid)

\* dispatch_tasks: one task per merged row that still misses a group
RECURSIVE BuildTasks(_, _, _, _)
BuildTasks(rows, store, groups, invalid) ==
    IF rows = <<>> THEN <<>>
    ELSE LET item == Head(rows)
             miss == MissingGroups(groups, DeliveredSet(store, msg_key(item)), invalid)
             rest == BuildTasks(Tail(rows), store, groups, invalid)
         IN  IF miss # <<>> THEN <<[item |-> item, groups |-> miss]>> \o rest
             ELSE rest

\* send_telegram_message: one POST, and a second POST with the fallback
\* keyboard whenever the first answer is not ok; an exception propagates
send_telegram_message(r1, r2) ==
    IF r1 = "raise" THEN [res |-> "raise", posts |-> <<r1>>]
    ELSE IF r1 = "ok" THEN [res |-> "ok", posts |-> <<r1>>]
    ELSE [res |-> r2, posts |-> <<r1, r2>>]

\* edit_telegram_message: "message is not modified" counts as ok with the
\* old message id; otherwise a second POST with the fallback keyboard
edit_telegram_message(r1, r2) ==
    IF r1 \in {"raise", "ok", "notmod"} THEN r1 ELSE r2

\* _telegram_retry_after_seconds(j) > 0
HasRetryAfter(res) == res = "rate"


\* rows a source can hold for one call: distinct rows, at most MaxFetch long
RECURSIVE SeqsUpTo(_)
SeqsUpTo(n) ==
    IF n = 0 THEN {<<>>}
    ELSE SeqsUpTo(n - 1) \cup
         {Append(s, r) : s \in {t \in SeqsUpTo(n - 1) : Len(t) = n - 1},
                         r \in Rows}
Feeds == {s \in SeqsUpTo(MaxFetch) : \A i, j \in 1..Len(s) : i # j => s[i] # s[j]}

\* a store left behind by a run of an earlier day
StaleStore == [seen_keys |-> {<<"T1", "b1">>},
               sent |-> <<[mkey |-> <<"T1", "b1">>, thread_key |-> "T1",
                           groups |-> <<[chat_id |-> "D1", message_id |-> 1]>>]>>,
               latest_by_thread |-> ("T1" :> ("D1" :> 1)),
               delivered_by_msg |-> (<<"T1", "b1">> :> {"D1"})]

NoLoc == [delivered_set |-> {}, prev_map |-> EmptyMap, next_map |-> EmptyMap,
          sent_info |-> <<>>, any_sent |-> FALSE, attempted |-> {}]
NoPrev == [has |-> FALSE, F |-> <<>>, G |-> <<>>, store |-> EmptyStore, full |-> FALSE]
NoCur == [same |-> FALSE, full |-> FALSE, len0 |-> 0, F |-> <<>>]
NoFetch == [src |-> "", calls |-> <<>>, ok |-> FALSE, failed |-> FALSE]
NoOrd == [on |-> FALSE, first |-> [k \in Keys |-> 0],
          live |-> [p \in Threads \X Dest |-> <<>>],
          roll |-> FALSE, past |-> {}]

\* ---------------------------------------------------------------------
\* State
\* ---------------------------------------------------------------------
VARIABLES
    once,                   \* the --once flag of the run
    today,                  \* date.today() of the host
    cfg,                    \* groups file and runtime config as persisted
    pDaily,                 \* table daily_store: day_key -> record
    changes,                \* changes of the environment made so far
    pc,                     \* position of run_loop
    attempts,               \* delivery attempts made so far
    active_day, day_store,  \* the in-memory DailyStore and its day
    current_target_groups, current_limit, update_marker,
    accounts,               \* the enabled accounts in use
    current_start_date,     \* the start-date filter in use
    invalid_groups,         \* chat ids answered "chat not found"
    token_cache,            \* account names with a cached token row
    pending,                \* sources whose fetch future is not yet consumed
    all_rows,               \* rows gathered from the futures, completion order
    rows,                   \* the merged rows of the cycle (line 1042)
    dispatch_tasks, idx, gi,\* tasks of the cycle, current task, current group
    loc,                    \* per-message locals of the dispatch loop
    nextId,                 \* next message id Telegram assigns in each chat
    calls,                  \* history: calls of the latest group attempt
    okCount,                \* history: successful deliveries per (key, chat)
    lastOk,                 \* history: handle of the last success per (thread, chat)
    fetchedKeys,            \* history: keys returned by the sources that succeeded
    prev, cur,              \* history: previous cycle and comparison with it
    fetchCalls,             \* history: upstream calls made for the future
                            \* consumed last in the fetch round
    current_api_token,      \* whether a session token is configured
    rd,                     \* the token and fetch rounds of two accounts
    pace,                   \* the times of the sends to one destination
    futures,                \* the fetch futures that worker threads run
    wiped,                  \* history: the sent entries that a clear deleted
    kv,                     \* two fetched rows, field by field, and their keys
    sup,                    \* the supervisor of src/main.py and its children
    ord,                    \* history: the round in which a key was fetched
                            \* first, and the message that a post shows
    stops, okBefore, recalled, \* history: stops, successes before a stop
    goneSeen,               \* history: chats answered "chat not found" in this process
    tk,                     \* the token cache of one account, with its clock
    iters, rounds           \* history: iterations begun and fetch rounds made
                            \* by the process (0, 1, or 2 for more than one)

vars == <<today, cfg, pDaily, changes, pc, attempts, active_day, day_store,
          current_target_groups, current_limit, update_marker, invalid_groups,
          token_cache, pending, all_rows, rows, dispatch_tasks, idx, gi, loc,
          nextId, calls, okCount, lastOk, fetchedKeys, prev, cur, stops, okBefore, recalled,
          goneSeen, tk, once, iters, rounds, accounts, current_start_date,
          fetchCalls, current_api_token, rd, pace, futures, wiped, kv, ord, sup>>

\* everything but the supervisor
otherVars == <<today, cfg, pDaily, changes, pc, attempts, active_day, day_store,
               current_target_groups, current_limit, update_marker,
               invalid_groups, token_cache, pending, all_rows, rows,
               dispatch_tasks, idx, gi, loc, nextId, calls, okCount, lastOk,
               fetchedKeys, prev, cur, stops, okBefore, recalled, goneSeen, tk,
               once, iters, rounds, accounts, current_start_date, fetchCalls,
               current_api_token, rd, pace, futures, wiped, kv, ord>>

envVars == <<once, today, cfg, changes>>
cycleVars == <<pending, all_rows, rows, dispatch_tasks, idx, gi, loc>>
histVars == <<calls, okCount, lastOk, fetchedKeys, prev, cur, fetchCalls>>
stopVars == <<stops, okBefore, recalled>>

senderVars == <<once, ord, sup, kv, wiped, futures, current_api_token, iters, rounds, accounts, current_start_date, today, cfg,
                pDaily, changes, pc, attempts, active_day, day_store,
                current_target_groups, current_limit, update_marker,
                invalid_groups, token_cache, cycleVars, nextId, histVars,
                stopVars, goneSeen>>

Pairs == Keys \X Dest
ZeroCount == [p \in Pairs |-> 0]
NoHandle == [p \in Threads \X Dest |-> 0]

InitSender ==
    /\ once \in BOOLEAN
    /\ iters = 0 /\ rounds = 0
    /\ today = 1
    /\ cfg \in [groups : {<<"D1", "D2">>}, marker : {0}, enabled : {TRUE},
                limit : Limits, accounts : {Accounts}, start_date : {""}]
    /\ pDaily \in {EmptyMap, (0 :> StaleStore)}
    /\ changes = 0
    /\ pc = "start"
    /\ attempts = 0
    /\ active_day = 0
    /\ day_store = EmptyStore
    /\ current_target_groups = <<>>
    /\ current_limit = 0
    /\ update_marker = 0
    /\ accounts = <<>>
    /\ current_start_date = ""
    /\ invalid_groups = {}
    /\ token_cache = {}
    /\ pending = {}
    /\ all_rows = <<>>
    /\ rows = <<>>
    /\ dispatch_tasks = <<>>
    /\ idx = 0
    /\ gi = 0
    /\ loc = NoLoc
    /\ nextId = [d \in Dest |-> 2]
    /\ calls = <<>>
    /\ okCount = ZeroCount
    /\ lastOk = NoHandle
    /\ fetchedKeys = {}
    /\ prev = NoPrev
    /\ cur = NoCur
    /\ fetchCalls = NoFetch
    /\ futures = EmptyMap
    /\ wiped = {}
    /\ stops = 0
    /\ okBefore = {}
    /\ recalled = FALSE
    /\ goneSeen = {}

\* ---------------------------------------------------------------------
\* The token cache (lines 36-37, 613-656).  A token is a non-empty string;
\* "" stands for None and for the empty token, which the code does not tell
\* apart (it tests truthiness).
\* ---------------------------------------------------------------------
TOKEN_TTL_SECONDS == 7200
TOKEN_REFRESH_SKEW_SECONDS == 300

Clock == {0, 6899, 6900, 6901, 7200}          \* values of int(time.time())
TokenRows == [token : {"", "old"}, obtained_at : {0},
              expires_at : {0, 300, 301, 7200}]   \* rows a start can find

\* variant: a token is valid until the very second it expires
cache_get_valid_token_NoSkew(cache, name, now) ==
    IF name \notin DOMAIN cache THEN ""
    ELSE IF cache[name].token = "" \/ cache[name].expires_at <= now THEN ""
    ELSE cache[name].token

\* cache_get_valid_token: the cached token, unless it is missing, empty, or
\* expires within TOKEN_REFRESH_SKEW_SECONDS
cache_get_valid_token(cache, name, now) ==
    IF name \notin DOMAIN cache THEN ""
    ELSE IF \/ cache[name].token = ""
            \/ cache[name].expires_at <= now + TOKEN_REFRESH_SKEW_SECONDS THEN ""
    ELSE cache[name].token

\* variant: the row expires as soon as the refresh margin is over
cache_set_token_Short(cache, name, token, now) ==
    Put(cache, name, [token |-> token, obtained_at |-> now,
                      expires_at |-> now + TOKEN_REFRESH_SKEW_SECONDS])

\* cache_set_token: the row of a token obtained now
cache_set_token(cache, name, token, now) ==
    Put(cache, name, [token |-> token, obtained_at |-> now,
                      expires_at |-> now + TOKEN_TTL_SECONDS])

\* get_or_refresh_account_token, given the answer of api_login should it be
\* called: the token returned, the login calls made, and the state it leaves
get_or_refresh_account_token(name, mem, cache, disk, now, answer) ==
    LET mem_tok == Get(mem, name, "")
        cached_tok == cache_get_valid_token(cache, name, now)
    IN  IF mem_tok # "" /\ cached_tok # ""
        THEN [ret |-> mem_tok, logins |-> 0, mem |-> mem, cache |-> cache,
              disk |-> disk]
        ELSE IF cached_tok # ""
        THEN [ret |-> cached_tok, logins |-> 0, mem |-> Put(mem, name, cached_tok),
              cache |-> cache, disk |-> disk]
        ELSE IF answer = ""
        THEN [ret |-> "", logins |-> 1, mem |-> mem, cache |-> cache,
              disk |-> disk]
        ELSE LET set == cache_set_token(cache, name, answer, now)
             IN  [ret |-> answer, logins |-> 1, mem |-> Put(mem, name, answer),
                  cache |-> set, disk |-> set]

NoTk == [now |-> 0, account_tokens |-> EmptyMap, token_cache |-> EmptyMap,
         disk |-> EmptyMap, ret |-> "", answer |-> "", logins |-> 0,
         calls |-> 0, loaded |-> FALSE]

\* ---------------------------------------------------------------------
\* Tokens and fetches of a list of two accounts (lines 991-1037), with the
\* token cache as the code keeps it: by account name.
\* ---------------------------------------------------------------------
Acc(name, email) == [name |-> name, email |-> email]
\* load_accounts keeps the name field of every enabled row as it is: two
\* accounts may carry one name
RoundAccounts == {<<Acc("n1", "e1"), Acc("n2", "e2")>>,
                  <<Acc("n1", "e1"), Acc("n1", "e2")>>}
RoundClock == {0, 6899, 6900}
LoginToken == ("e1" :> "t1") @@ ("e2" :> "t2")
Owner(tok) == CHOOSE e \in DOMAIN LoginToken : LoginToken[e] = tok
\* api_login: the token of the account, or None
api_login(email, ok) == IF ok THEN LoginToken[email] ELSE ""

NoRow == [token |-> "", obtained_at |-> 0, expires_at |-> 0]
NoLast == [op |-> "", idx |-> 0, ok |-> FALSE, tok |-> "", mem |-> "",
           row |-> NoRow, disk |-> NoRow]
NoRd == [accounts |-> <<>>, now |-> 0, account_tokens |-> EmptyMap,
         token_cache |-> EmptyMap, disk |-> EmptyMap, pc |-> "idle", i |-> 0,
         jobs |-> <<>>, pending |-> {}, retry |-> 0, round |-> 0,
         last |-> NoLast, fetches |-> {}, fetched |-> {}, tried |-> {},
         failed |-> {}, prevFailed |-> {}]

\* history: a login of account k and what the name of the account had in
\* memory, in the cache and on disk before it
LoginOf(k, tok) ==
    LET name == rd.accounts[k].name
    IN  [op |-> "login", idx |-> k, ok |-> tok # "", tok |-> tok,
         mem |-> Get(rd.account_tokens, name, ""),
         row |-> Get(rd.token_cache, name, NoRow),
         disk |-> Get(rd.disk, name, NoRow)]

\* ---------------------------------------------------------------------
\* The times of the sends to one destination (lines 49, 902, 1099-1138), in
\* tenths of a second.  Of the past, the code's decisions depend on the time
\* since last_group_send_at[gid] was set; times are kept up to LongInterval.
\* ---------------------------------------------------------------------
DEFAULT_GROUP_SEND_INTERVAL_SECONDS == 2       \* 0.2 s
LongInterval == 30                  \* a TG_GROUP_MIN_INTERVAL_SEC of 3 s
GroupIntervals == {DEFAULT_GROUP_SEND_INTERVAL_SECONDS, LongInterval}
Elapsed == {0, 1, 2, 10, 30}        \* time that other work takes
RetryAfter == {0, 1, 5}             \* seconds, 0 when the answer names none
Later(t, e) == IF t + e > LongInterval THEN LongInterval ELSE t + e
\* line 1115: time.sleep(max(1, retry_after + 1)), in tenths of a second
RetrySleep(retry_after) ==
    10 * (IF retry_after + 1 > 1 THEN retry_after + 1 ELSE 1)

\* sinceSet: time since last_group_send_at[gid] was set (LongInterval when it
\* never was, the clock being far from 0); history: sinceSend, the time since
\* the last send operation (-1 when there was none), and gap, the time between
\* the two last send operations (-1 when there were less than two)
NoPace == [interval |-> DEFAULT_GROUP_SEND_INTERVAL_SECONDS, sinceSet |-> LongInterval,
           sinceSend |-> -1, gap |-> -1, retry |-> 0]
PaceAfter(p, e) ==
    [p EXCEPT !.sinceSet = Later(@, e),
              !.sinceSend = IF @ = -1 THEN -1 ELSE Later(@, e)]
\* the state after a send operation made now
PaceSent(p, ok) ==
    [p EXCEPT !.gap = p.sinceSend, !.sinceSend = 0,
              !.sinceSet = IF ok THEN 0 ELSE @]

\* ---------------------------------------------------------------------
\* msg_key (lines 659-680) on rows as the upstream sends them: every field
\* is a string, here a sequence of characters, and the key is the text that
\* the f-string builds.
\* ---------------------------------------------------------------------
FieldTexts == {<<>>, <<"a">>, <<"|">>}        \* number, service_name
RangeTexts == {<<>>, <<"a">>}
BodyTexts == {<<>>, <<"a">>}
IdTexts == {<<>>, <<"a">>, <<" ">>, <<" ", "a">>}
FetchedRows == [number : FieldTexts, service_name : FieldTexts,
                range : RangeTexts, message : BodyTexts,
                id : IdTexts, time : RangeTexts]
\* lines 666-676: the fields looked at for an identifier, in their order
\* (the first and the last of the nine)
IdFields == <<"id", "time">>
IdName == [id |-> <<"i", "d">>, time |-> <<"t", "i", "m", "e">>]

\* str.strip(), for the space
RECURSIVE Strip(_)
Strip(t) ==
    IF t = <<>> THEN t
    ELSE IF Head(t) = " " THEN Strip(Tail(t))
    ELSE IF t[Len(t)] = " " THEN Strip(SubSeq(t, 1, Len(t) - 1))
    ELSE t

\* lines 666-679: the first identifier field whose stripped value is not
\* empty, as name and value, or <<>> when there is none
RECURSIVE FirstId(_, _)
FirstId(item, i) ==
    IF i > Len(IdFields) THEN <<>>
    ELSE IF Strip(item[IdFields[i]]) # <<>>
    THEN <<IdFields[i], Strip(item[IdFields[i]])>>
    ELSE FirstId(item, i + 1)

\* msg_key: number|service_name|range|message, then |name=value of the
\* first identifier
msg_key_text(item) ==
    LET base == item.number \o <<"|">> \o item.service_name \o <<"|">> \o
                item.range \o <<"|">> \o item.message
        first == FirstId(item, 1)
    IN  IF first = <<>> THEN base
        ELSE base \o <<"|">> \o IdName[first[1]] \o <<"=">> \o first[2]

NoKv == [on |-> FALSE, a |-> <<>>, b |-> <<>>, ka |-> <<>>, kb |-> <<>>, cycles |-> 0]

\* the keys of the two rows are computed, in one cycle and in the next
KeyOf ==
    /\ kv.on /\ kv.cycles < 2
    /\ kv' = [kv EXCEPT !.ka = msg_key_text(kv.a), !.kb = msg_key_text(kv.b),
                        !.cycles = @ + 1]
    /\ UNCHANGED <<today, cfg, pDaily, changes, pc, attempts, active_day,
                   day_store, current_target_groups, current_limit,
                   update_marker, invalid_groups, token_cache, pending,
                   all_rows, rows, dispatch_tasks, idx, gi, loc, nextId, calls,
                   okCount, lastOk, fetchedKeys, prev, cur, stops, okBefore,
                   recalled, goneSeen, tk, once, iters, rounds, accounts,
                   current_start_date, fetchCalls, current_api_token, rd, pace,
                   futures, wiped, ord, sup>>

\* ---------------------------------------------------------------------
\* The supervisor (src/main.py).  It starts one child process per spec
\* name, restarts all of them when the restart marker or the managed bots
\* change, and restarts a child that has exited.  A child is a pair of its
\* spec name and its pid.
\* ---------------------------------------------------------------------
MaxExits == 2
MaxRequests == 2

\* a spec: the script and the data namespace of its environment ("main"
\* when IVASMS_DATA_NAMESPACE is not set, src/app/paths.py lines 8-13)
ChildSpec(script, namespace) == [script |-> script, namespace |-> namespace]

BaseSpecs == ("sender" :> ChildSpec("bot.py", "main")
                 @@ "panel" :> ChildSpec("panel_bot.py", "main"))

\* lines 68-96: the sender and the panel of managed bot 1; a private bot
\* gets the namespace bot_1, a shared one the namespace of the main bot
ManagedSpecs(storage_mode) ==
    LET namespace == IF storage_mode = "private" THEN "bot_1" ELSE "main"
    IN  ("managed_sender_1" :> ChildSpec("bot.py", namespace)
            @@ "managed_panel_1" :> ChildSpec("panel_bot.py", namespace))

\* managed_bots of the runtime configuration: no managed bot, or one with
\* private or with shared storage
ManagedBots == {"", "private", "shared"}
SpecNames == <<"sender", "panel", "managed_sender_1", "managed_panel_1">>

\* build_specs: the sender and the panel, and a sender and a panel for the
\* enabled managed bot
build_specs(managed) ==
    IF managed # "" THEN BaseSpecs @@ ManagedSpecs(managed) ELSE BaseSpecs

\* specs_fingerprint: the sorted items of the specs
specs_fingerprint(specs) == {<<n, specs[n]>> : n \in DOMAIN specs}

\* acquire_main_lock: the non-blocking exclusive flock succeeds when no
\* process holds the lock
acquire_main_lock(held) == ~held

\* stop_process: terminate, wait up to 8 s, then kill; the child is not
\* running afterwards
stop_process(alive, child) == alive \ {child}

\* the children that procs holds
Children(procs) == {<<n, procs[n]>> : n \in DOMAIN procs}

\* for p in procs.values(): stop_process(p)
RECURSIVE StopAll(_, _)
StopAll(alive, children) ==
    IF children = {} THEN alive
    ELSE LET c == CHOOSE x \in children : TRUE
         IN  StopAll(stop_process(alive, c), children \ {c})

\* position of a name in the order of the specs dict
SpecPos(n) == CHOOSE i \in 1..Len(SpecNames) : SpecNames[i] = n

\* start_process: the child process, with its script and its environment
start_process(spec, pid) ==
    [pid |-> pid, script |-> spec.script, namespace |-> spec.namespace]

\* {name: start_process(...) for name in specs}: a new pid for every name
StartAll(specs, next) ==
    [n \in DOMAIN specs |->
        start_process(specs[n],
            next + Cardinality({m \in DOMAIN specs : SpecPos(m) < SpecPos(n)}))]

\* lines 150-155: a new child for every name whose child has exited
Restarted(specs, procs, alive, next) ==
    LET gone == {n \in DOMAIN procs : <<n, procs[n]>> \notin alive}
    IN  [n \in DOMAIN procs |->
            IF n \in gone
            THEN start_process(specs[n],
                     next + Cardinality({m \in gone : SpecPos(m) < SpecPos(n)}))
            ELSE procs[n]]

NoSup == [pc |-> "off", lock |-> FALSE, refused |-> FALSE,
          cfg_managed |-> "", cfg_marker |-> 0,
          specs |-> EmptyMap, procs |-> EmptyMap, last_specs_fp |-> {},
          last_restart_marker |-> 0, marker |-> 0, latest_specs |-> EmptyMap,
          alive |-> {}, next_pid |-> 1, exits |-> 0, requests |-> 0]

\* lines 120-128: take the lock and start a child for every spec
SupMain ==
    /\ sup.pc = "main"
    /\ acquire_main_lock(sup.lock)
    /\ LET specs == build_specs(sup.cfg_managed)
           procs == StartAll(specs, sup.next_pid)
       IN  sup' = [sup EXCEPT !.pc = "loop", !.lock = TRUE, !.specs = specs,
                              !.procs = procs,
                              !.alive = @ \cup Children(procs),
                              !.next_pid = @ + Cardinality(DOMAIN specs),
                              !.last_specs_fp = specs_fingerprint(specs),
                              !.last_restart_marker = sup.cfg_marker]
    /\ UNCHANGED otherVars

\* lines 132-135: the marker and the specs read by an iteration ask for a
\* restart
RestartAsked(marker, latest_specs) ==
    \/ marker # 0 /\ marker # sup.last_restart_marker
    \/ specs_fingerprint(latest_specs) # sup.last_specs_fp

\* lines 132-139: an iteration that finds a restart request stops every child
RestartStop ==
    /\ sup.pc = "loop"
    /\ LET marker == sup.cfg_marker
           latest_specs == build_specs(sup.cfg_managed)
       IN  /\ RestartAsked(marker, latest_specs)
           /\ sup' = [sup EXCEPT !.pc = "restart", !.marker = marker,
                                  !.latest_specs = latest_specs,
                                  !.alive = StopAll(@, Children(sup.procs))]
    /\ UNCHANGED otherVars

\* lines 140-148: and then starts a child for every spec it read
RestartStart ==
    /\ sup.pc = "restart"
    /\ LET procs == StartAll(sup.latest_specs, sup.next_pid)
       IN  sup' = [sup EXCEPT !.pc = "loop", !.specs = sup.latest_specs,
                              !.procs = procs,
                              !.alive = @ \cup Children(procs),
                              !.next_pid = @ + Cardinality(DOMAIN sup.latest_specs),
                              !.last_specs_fp = specs_fingerprint(sup.latest_specs),
                              !.last_restart_marker = sup.marker]
    /\ UNCHANGED otherVars

\* lines 132-135, 150-156: an iteration without a restart request starts a
\* new child for every child that has exited
SupPoll ==
    /\ sup.pc = "loop"
    /\ ~RestartAsked(sup.cfg_marker, build_specs(sup.cfg_managed))
    /\ LET procs == Restarted(sup.specs, sup.procs, sup.alive, sup.next_pid)
       IN  sup' = [sup EXCEPT !.procs = procs,
                              !.alive = @ \cup Children(procs),
                              !.next_pid = @ + Cardinality(Children(procs) \ sup.alive)]
    /\ UNCHANGED otherVars

\* lines 157-160: KeyboardInterrupt inside the loop stops every child of procs
Interrupt ==
    /\ sup.pc \in {"loop", "restart"}
    /\ sup' = [sup EXCEPT !.pc = "done", !.lock = FALSE,
                          !.alive = StopAll(@, Children(sup.procs))]
    /\ UNCHANGED otherVars

\* a second main.py is launched while the first runs: without the lock it
\* exits at once (lines 33-35), with it it starts children of its own
SecondMain ==
    /\ sup.pc \in {"loop", "restart"}
    /\ ~sup.refused
    /\ IF acquire_main_lock(sup.lock)
       THEN LET procs == StartAll(build_specs(sup.cfg_managed), sup.next_pid)
            IN  sup' = [sup EXCEPT !.refused = TRUE,
                                   !.alive = @ \cup Children(procs),
                                   !.next_pid = @ + Cardinality(DOMAIN procs)]
       ELSE sup' = [sup EXCEPT !.refused = TRUE]
    /\ UNCHANGED otherVars

\* a child exits by itself
ChildExit(c) ==
    /\ sup.pc \in {"loop", "restart"}
    /\ c \in sup.alive
    /\ sup.exits < MaxExits
    /\ sup' = [sup EXCEPT !.alive = @ \ {c}, !.exits = @ + 1]
    /\ UNCHANGED otherVars

\* the panel asks for a restart (bot_restart_requested_at)
RequestRestart ==
    /\ sup.pc \in {"loop", "restart"}
    /\ sup.requests < MaxRequests
    /\ sup' = [sup EXCEPT !.cfg_marker = @ + 1, !.requests = @ + 1]
    /\ UNCHANGED otherVars

\* the panel adds, removes or changes the managed bot (managed_bots)
ManagedChange(m) ==
    /\ sup.pc \in {"loop", "restart"}
    /\ sup.requests < MaxRequests
    /\ m # sup.cfg_managed
    /\ sup' = [sup EXCEPT !.cfg_managed = m, !.requests = @ + 1]
    /\ UNCHANGED otherVars

\* the steps of the supervisor itself
SupStep == SupMain \/ RestartStop \/ RestartStart \/ SupPoll

NextSup ==
    \/ SupMain
    \/ RestartStop
    \/ RestartStart
    \/ SupPoll
    \/ Interrupt
    \/ SecondMain
    \/ \E c \in sup.alive : ChildExit(c)
    \/ RequestRestart
    \/ \E m \in ManagedBots : ManagedChange(m)

Init ==
    /\ InitSender /\ tk = NoTk /\ current_api_token = TRUE /\ rd = NoRd
    /\ pace = NoPace /\ kv = NoKv /\ sup = NoSup /\ ord = NoOrd

\* a process start: the cache as load_token_cache() finds it, no token in memory
InitTok ==
    /\ InitSender
    /\ current_api_token = TRUE
    /\ rd = NoRd /\ pace = NoPace /\ kv = NoKv /\ sup = NoSup /\ ord = NoOrd
    /\ cfg.limit = 0 /\ pDaily = EmptyMap
    /\ \E c \in {EmptyMap} \cup {(Accounts[1] :> r) : r \in TokenRows} :
          tk = [NoTk EXCEPT !.token_cache = c, !.disk = c]

\* one call of get_or_refresh_account_token for the account
TokCall(answer) ==
    /\ tk.calls < MaxTokCalls
    /\ LET o == get_or_refresh_account_token(Accounts[1], tk.account_tokens,
                                             tk.token_cache, tk.disk, tk.now, answer)
       IN  tk' = [tk EXCEPT !.ret = o.ret, !.answer = answer,
                            !.logins = @ + o.logins, !.calls = @ + 1,
                            !.account_tokens = o.mem, !.token_cache = o.cache,
                            !.disk = o.disk]
    /\ UNCHANGED <<senderVars, rd, pace>>

\* time passes
TokTick(t) ==
    /\ t > tk.now
    /\ tk' = [tk EXCEPT !.now = t]
    /\ UNCHANGED <<senderVars, rd, pace>>

\* lines 898-899 and 936-937: at a start and at a hot reload the cache is
\* read from persistence and the tokens held in memory are dropped
TokLoad ==
    /\ tk.account_tokens # EmptyMap
    /\ tk' = [tk EXCEPT !.account_tokens = EmptyMap, !.token_cache = tk.disk,
                        !.loaded = TRUE]
    /\ UNCHANGED <<senderVars, rd, pace>>

NextTok ==
    \/ \E answer \in {"", "new"} : TokCall(answer)
    \/ \E t \in Clock : TokTick(t)
    \/ TokLoad

SpecTok == InitTok /\ [][NextTok]_vars

\* lines 991-992: an iteration begins its token round
RoundBegin ==
    /\ rd.pc = "idle"
    /\ rd.round < MaxRounds
    /\ rd' = [rd EXCEPT !.pc = "tokens", !.i = 1, !.jobs = <<>>,
                        !.round = @ + 1, !.last = NoLast, !.fetched = {},
                        !.tried = {}, !.failed = {}, !.prevFailed = rd.failed]
    /\ UNCHANGED <<senderVars, tk, pace>>

\* lines 993-997: the token of the next account; a job when there is one
RoundToken(ok) ==
    /\ rd.pc = "tokens"
    /\ LET acc == rd.accounts[rd.i]
           r == get_or_refresh_account_token(acc.name, rd.account_tokens,
                    rd.token_cache, rd.disk, rd.now, api_login(acc.email, ok))
           jobs1 == IF r.ret # "" THEN Append(rd.jobs, [idx |-> rd.i, tok |-> r.ret])
                    ELSE rd.jobs
           end == rd.i = Len(rd.accounts)
       IN  rd' = [rd EXCEPT !.account_tokens = r.mem, !.token_cache = r.cache,
                            !.disk = r.disk, !.jobs = jobs1, !.i = @ + 1,
                            !.pc = IF end THEN "fetch" ELSE "tokens",
                            !.pending = IF end THEN 1..Len(jobs1) ELSE {},
                            !.tried = IF r.logins > 0 THEN @ \cup {rd.i} ELSE @,
                            !.failed = IF r.logins > 0 /\ r.ret = ""
                                       THEN @ \cup {rd.i} ELSE @,
                            !.last = IF r.logins > 0 THEN LoginOf(rd.i, r.ret)
                                     ELSE NoLast]
    /\ UNCHANGED <<senderVars, tk, pace>>

\* lines 1011-1029: the future of job j is consumed; after a failed fetch
\* the account logs in, and a new token is kept and saved
RoundFuture(j, fetch_ok, login_ok) ==
    /\ rd.pc = "fetch" /\ rd.retry = 0
    /\ j \in rd.pending
    /\ LET job == rd.jobs[j]
           acc == rd.accounts[job.idx]
           new_tok == api_login(acc.email, login_ok)
           cache1 == cache_set_token(rd.token_cache, acc.name, new_tok, rd.now)
           done == [rd EXCEPT !.pending = @ \ {j},
                              !.fetches = @ \cup {job},
                              !.fetched = @ \cup {job.idx}]
       IN  rd' = IF fetch_ok THEN [done EXCEPT !.last = NoLast]
                 ELSE IF new_tok = ""
                 THEN [done EXCEPT !.last = LoginOf(job.idx, "")]
                 ELSE [done EXCEPT !.last = LoginOf(job.idx, new_tok),
                                   !.account_tokens = Put(@, acc.name, new_tok),
                                   !.token_cache = cache1, !.disk = cache1,
                                   !.jobs[j].tok = new_tok, !.retry = j]
    /\ UNCHANGED <<senderVars, tk, pace>>

\* lines 1030-1037: the one retry with the new token
RoundRetry ==
    /\ rd.pc = "fetch" /\ rd.retry # 0
    /\ rd' = [rd EXCEPT !.retry = 0, !.last = NoLast,
                        !.fetches = @ \cup {rd.jobs[rd.retry]}]
    /\ UNCHANGED <<senderVars, tk, pace>>

\* every future is consumed: the iteration goes on and ends
RoundEnd ==
    /\ rd.pc = "fetch" /\ rd.retry = 0 /\ rd.pending = {}
    /\ rd' = [rd EXCEPT !.pc = "idle", !.last = NoLast]
    /\ UNCHANGED <<senderVars, tk, pace>>

\* time passes between two iterations
RoundTick(t) ==
    /\ rd.pc = "idle"
    /\ t > rd.now
    /\ rd' = [rd EXCEPT !.now = t]
    /\ UNCHANGED <<senderVars, tk, pace>>

\* lines 897-899, 936-937: a start or a hot reload reads the token cache
\* again and forgets the tokens in memory
RoundLoad ==
    /\ rd.pc = "idle"
    /\ rd' = [rd EXCEPT !.account_tokens = EmptyMap, !.token_cache = rd.disk]
    /\ UNCHANGED <<senderVars, tk, pace>>

NextRound ==
    \/ RoundBegin
    \/ \E ok \in BOOLEAN : RoundToken(ok)
    \/ \E j \in 1..2, fetch_ok \in BOOLEAN, login_ok \in BOOLEAN :
          RoundFuture(j, fetch_ok, login_ok)
    \/ RoundRetry
    \/ RoundEnd
    \/ \E t \in RoundClock : RoundTick(t)
    \/ RoundLoad

InitRound ==
    /\ InitSender /\ tk = NoTk /\ current_api_token = TRUE /\ pace = NoPace
    /\ kv = NoKv /\ sup = NoSup /\ ord = NoOrd
    /\ cfg.limit = 0 /\ pDaily = EmptyMap
    /\ \E a \in RoundAccounts : rd = [NoRd EXCEPT !.accounts = a]

SpecRound == InitRound /\ [][NextRound]_vars

\* time passes: other groups, other messages, the sleep of the loop
PaceWait(e) ==
    /\ pace.retry = 0
    /\ pace' = PaceAfter(pace, e)
    /\ UNCHANGED <<senderVars, tk, rd>>

\* lines 1091-1093, 1138: an edit for the group succeeded
PaceEdit ==
    /\ pace.retry = 0
    /\ pace' = [pace EXCEPT !.sinceSet = 0]
    /\ UNCHANGED <<senderVars, tk, rd>>

\* lines 1099-1113, 1138: the wait that is left of the interval, then the
\* send; res is "ok", "fail" (an answer that is not ok, or an exception) or
\* "rate" (an answer with a retry_after)
PaceSend(res, retry_after) ==
    /\ pace.retry = 0
    /\ (res = "rate") = (retry_after > 0)
    /\ LET wait == pace.interval - pace.sinceSet
           p1 == IF wait > 0 THEN PaceAfter(pace, wait) ELSE pace
       IN  pace' = [PaceSent(p1, res = "ok") EXCEPT !.retry = retry_after]
    /\ UNCHANGED <<senderVars, tk, rd>>

\* lines 1114-1121, 1138: the sleep that the answer asked for, then the
\* second send
PaceRetry(ok) ==
    /\ pace.retry > 0
    /\ pace' = [PaceSent(PaceAfter(pace, RetrySleep(pace.retry)), ok)
                   EXCEPT !.retry = 0]
    /\ UNCHANGED <<senderVars, tk, rd>>

NextPace ==
    \/ \E e \in Elapsed : PaceWait(e)
    \/ PaceEdit
    \/ \E res \in {"ok", "fail", "rate"}, ra \in RetryAfter : PaceSend(res, ra)
    \/ \E ok \in BOOLEAN : PaceRetry(ok)

InitPace ==
    /\ InitSender /\ tk = NoTk /\ current_api_token = TRUE /\ rd = NoRd
    /\ kv = NoKv /\ sup = NoSup /\ ord = NoOrd
    /\ cfg.limit = 0 /\ pDaily = EmptyMap
    /\ \E i \in GroupIntervals : pace = [NoPace EXCEPT !.interval = i]

SpecPace == InitPace /\ [][NextPace]_vars

\* get_or_refresh_account_token for every account: "cached" returns the cached
\* token (its row exists and is not about to expire), "login" logs in and
\* caches the new token, "fail" is a login that failed
TokenOutcomes(accs, cache) ==
    {o \in [Range(accs) -> {"cached", "login", "fail"}] :
        \A a \in Range(accs) : o[a] = "cached" => a \in cache}
CacheAfter(cache, o) == cache \cup {a \in DOMAIN o : o[a] = "login"}
TokensOf(o) == {a \in DOMAIN o : o[a] # "fail"}

\* variant: the value in use is kept, whatever the configuration holds
runtime_start_date_Keep(value, default_value) == default_value

\* runtime_start_date: the configured date, or the default when none is set
runtime_start_date(value, default_value) ==
    IF value # "" THEN value ELSE default_value

\* history counters tell 0, 1 and more than 1 apart
Counted(n) == IF n < 2 THEN n + 1 ELSE n

\* variant: the flag is ignored and the loop sleeps
AfterIteration_Sleep(flag) == "sleep"

\* lines 962-965, 970-973, 1059-1062, 1165-1167: "if once: return", else
\* time.sleep(current_poll_interval) and the next iteration
AfterIteration(flag) == IF flag THEN "returned" ELSE "sleep"

\* run_loop, lines 874-918: state set up before the loop, at the first start
\* and at every restart of the process.  The history of deliveries is kept
\* per calendar day, as the store is.
Start ==
    /\ pc \in {"start", "stopped"}
    /\ active_day' = today
    /\ pDaily' = cleanup_old_daily_files(pDaily, today)
    /\ day_store' = load_daily_store(pDaily', today)
    /\ current_target_groups' = cfg.groups
    /\ current_limit' = cfg.limit
    /\ update_marker' = cfg.marker
    /\ accounts' = cfg.accounts
    /\ current_start_date' = runtime_start_date(cfg.start_date, EnvStartDate)
    /\ invalid_groups' = {}
    /\ \E o \in TokenOutcomes(accounts', token_cache) :
          token_cache' = CacheAfter(token_cache, o)
    /\ pc' = "top"
    /\ IF today # active_day
       THEN okCount' = ZeroCount /\ lastOk' = NoHandle /\ okBefore' = {}
       ELSE UNCHANGED <<okCount, lastOk, okBefore>>
    /\ prev' = NoPrev /\ cur' = NoCur
    /\ goneSeen' = {}
    /\ iters' = 0 /\ rounds' = 0
    /\ UNCHANGED <<ord, sup, kv, wiped, futures, pace, rd, current_api_token, fetchCalls, tk, envVars, attempts, cycleVars, nextId, calls, fetchedKeys,
                   stops, recalled>>

\* variant: an empty destination list does not skip the iteration
Skipped_OnlyPaused(enabled, groups) == ~enabled

\* lines 959-973: the iteration is skipped when fetching is paused
\* (is_fetch_codes_enabled() is false) or no destination is configured
Skipped(enabled, groups) == ~enabled \/ groups = <<>>

\* run_loop, lines 920-989: top of an iteration - hot reload when the marker
\* changed, the two skipped-iteration exits, and the day rotation
Top ==
    /\ pc \in {"top", "sleep"}
    /\ attempts + changes < MaxSteps  \* explored while steps are left
    /\ LET reload == cfg.marker # 0 /\ cfg.marker # update_marker
           groups1 == IF reload THEN cfg.groups ELSE current_target_groups
           store1 == IF reload THEN load_daily_store(pDaily, active_day) ELSE day_store
           skip == Skipped(cfg.enabled, groups1)
           rotate == ~skip /\ today # active_day
       IN  /\ update_marker' = IF reload THEN cfg.marker ELSE update_marker
           /\ current_limit' = IF reload THEN cfg.limit ELSE current_limit
           /\ current_target_groups' = groups1
           /\ accounts' = IF reload THEN cfg.accounts ELSE accounts
           /\ current_start_date' =
                  IF reload THEN runtime_start_date(cfg.start_date, current_start_date)
                  ELSE current_start_date
           /\ invalid_groups' = IF reload THEN {} ELSE invalid_groups
           /\ active_day' = IF rotate THEN today ELSE active_day
           /\ pDaily' = IF rotate THEN cleanup_old_daily_files(pDaily, today) ELSE pDaily
           /\ day_store' = IF rotate THEN load_daily_store(pDaily', today) ELSE store1
           /\ pc' = IF skip THEN AfterIteration(once) ELSE "tokens"
           /\ IF rotate
              THEN okCount' = ZeroCount /\ lastOk' = NoHandle /\ okBefore' = {}
              ELSE UNCHANGED <<okCount, lastOk, okBefore>>
           /\ ord' = IF rotate /\ ord.roll
                     THEN [ord EXCEPT !.past = @ \cup {p \in Pairs : okCount[p] > 0}]
                     ELSE ord
    /\ cur' = NoCur /\ rows' = <<>> /\ fetchedKeys' = {}
    /\ iters' = Counted(iters)
    /\ fetchCalls' = NoFetch
    /\ UNCHANGED <<sup, kv, wiped, futures, pace, rd, current_api_token, rounds, tk, goneSeen, envVars, attempts, token_cache,
                   pending, all_rows,
                   dispatch_tasks, idx, gi, loc, nextId, calls, prev, stops,
                   recalled>>

\* lines 1002-1009: pool.submit(fetch_messages, ...) for every source; the
\* worker of a future has not returned yet
Submitted(srcs) == [src \in srcs |-> [state |-> "running", ok |-> FALSE, rows |-> <<>>]]

\* run_loop, lines 991-1009: a token for every account, then one fetch future
\* per account with a token and one for the session token.  With threads the
\* workers of the pool are steps of their own; without, a future holds its
\* result when the controller comes to it.
GetTokens(threads) ==
    /\ pc = "tokens"
    /\ \E o \in TokenOutcomes(accounts, token_cache) :
          /\ token_cache' = CacheAfter(token_cache, o)
          /\ pending' = TokensOf(o) \cup
                            (IF current_api_token THEN {ApiTokenSrc} ELSE {})
          /\ futures' = IF threads THEN Submitted(pending') ELSE EmptyMap
    /\ all_rows' = <<>>
    /\ fetchedKeys' = {}
    /\ pc' = "fetch"
    /\ rounds' = Counted(rounds)
    /\ fetchCalls' = NoFetch
    /\ UNCHANGED <<ord, sup, kv, wiped, pace, rd, current_api_token, accounts, current_start_date, iters, tk, goneSeen, envVars,
                   pDaily, attempts, active_day, day_store,
                   current_target_groups, current_limit, update_marker,
                   invalid_groups, rows, dispatch_tasks, idx, gi, loc, nextId,
                   calls, okCount, lastOk, prev, cur, stopVars>>

\* an upstream call and whether it succeeded
Up(op, ok) == [op |-> op, ok |-> ok]

\* variant: a failed account fetch is given up at once
FutureOutcomes_NoRetry(src) ==
    {[calls |-> <<Up("fetch", TRUE)>>, rows |-> TRUE, login |-> FALSE],
     [calls |-> <<Up("fetch", FALSE)>>, rows |-> FALSE, login |-> FALSE]}

\* lines 1011-1037: what consuming the future of a source can come to - the
\* calls made, whether rows were added, whether a new token was cached.  A
\* failed fetch of the session token is given up; a failed account fetch is
\* followed by one api_login and, if that succeeds, one more fetch.
FutureOutcomes(src) ==
    {[calls |-> <<Up("fetch", TRUE)>>, rows |-> TRUE, login |-> FALSE]} \cup
    IF src = ApiTokenSrc
    THEN {[calls |-> <<Up("fetch", FALSE)>>, rows |-> FALSE, login |-> FALSE]}
    ELSE {[calls |-> <<Up("fetch", FALSE), Up("login", FALSE)>>,
           rows |-> FALSE, login |-> FALSE],
          [calls |-> <<Up("fetch", FALSE), Up("login", TRUE), Up("fetch", TRUE)>>,
           rows |-> TRUE, login |-> TRUE],
          [calls |-> <<Up("fetch", FALSE), Up("login", TRUE), Up("fetch", FALSE)>>,
           rows |-> FALSE, login |-> TRUE]}

\* variant: the rows of a fetch are taken although it failed
FutureRows_Partial(o, f, limit) == FetchRows(f, limit)

\* lines 1014, 1031: all_rows.extend() of what a fetch returned; a fetch that
\* raised adds nothing
FutureRows(o, f, limit) == IF o.rows THEN FetchRows(f, limit) ELSE <<>>

\* fetch_messages, lines 835-862, in a worker thread of the pool: the call
\* returns rows or raises, and the future holds the result
WorkerDone(src) ==
    /\ src \in DOMAIN futures
    /\ futures[src].state = "running"
    /\ \E ok \in BOOLEAN, f \in Feeds :
          futures' = [futures EXCEPT ![src] =
                         [state |-> "done", ok |-> ok,
                          rows |-> IF ok THEN f ELSE <<>>]]
    /\ UNCHANGED <<today, cfg, pDaily, changes, pc, attempts, active_day,
                   day_store, current_target_groups, current_limit,
                   update_marker, invalid_groups, token_cache, pending,
                   all_rows, rows, dispatch_tasks, idx, gi, loc, nextId, calls,
                   okCount, lastOk, fetchedKeys, prev, cur, stops, okBefore,
                   recalled, goneSeen, tk, once, iters, rounds, accounts,
                   current_start_date, fetchCalls, current_api_token, rd, pace,
                   wiped, kv, ord, sup>>

\* line 1011, as_completed(futures): the future of src can be consumed, and
\* fut.result() (line 1014) gives what its worker left in it
Completed(src, o, f) ==
    src \in DOMAIN futures =>
        /\ futures[src].state = "done"
        /\ o.calls[1].ok = futures[src].ok
        /\ o.calls[1].ok => f = futures[src].rows

\* variant: the loop over the futures is left while some are not consumed
AllConsumed_Early(p) == TRUE

\* lines 1002, 1011: the for loop over as_completed(futures) and the with
\* block of the pool are left when every future has been consumed
AllConsumed(p) == p = {}

\* run_loop, lines 1011-1037: the controller consumes one completed future.
\* The upstream calls made for it are recorded when history is asked for.
FutureDone(src, history) ==
    /\ pc = "fetch"
    /\ src \in pending
    /\ pending' = pending \ {src}
    /\ futures' = [x \in (DOMAIN futures) \ {src} |-> futures[x]]
    /\ \E o \in FutureOutcomes(src) :
          /\ fetchCalls' = IF history
                           THEN [src |-> src, calls |-> o.calls,
                                 ok |-> fetchCalls.ok \/ o.rows, failed |-> FALSE]
                           ELSE NoFetch
          /\ token_cache' = IF o.login THEN token_cache \cup {src} ELSE token_cache
          /\ \E f \in Feeds :                \* what the upstream holds
                /\ Completed(src, o, f)
                /\ all_rows' = all_rows \o FutureRows(o, f, current_limit)
                /\ fetchedKeys' = fetchedKeys \cup
                      {msg_key(r) : r \in Range(FutureRows(o, f, current_limit))}
                /\ ord' = IF ord.on
                          THEN [ord EXCEPT !.first =
                                   [k \in Keys |->
                                       IF @[k] = 0 /\ k \in fetchedKeys'
                                       THEN rounds ELSE @[k]]]
                          ELSE ord
    /\ UNCHANGED <<sup, kv, wiped, pace, rd, current_api_token, accounts, current_start_date, iters, rounds, tk, goneSeen,
                   envVars, pDaily, pc, attempts, active_day, day_store,
                   current_target_groups, current_limit, update_marker,
                   invalid_groups, rows, dispatch_tasks, idx, gi, loc, nextId,
                   calls, okCount, lastOk, prev, cur, stopVars>>

\* what the history keeps of a finished cycle
EndOfCycle(F, store) ==
    [has |-> TRUE, F |-> F, G |-> current_target_groups, store |-> store,
     full |-> \A r \in Range(F) :
                 Range(current_target_groups) \subseteq
                     Get(store.delivered_by_msg, msg_key(r), {})]

\* run_loop, lines 1039-1062: merge by key, build the dispatch tasks, and go
\* to sleep when there is nothing to deliver
Merge ==
    /\ pc = "fetch"
    /\ AllConsumed(pending)
    /\ rows' = MergedRows(all_rows, current_limit)
    /\ dispatch_tasks' = BuildTasks(rows', day_store, current_target_groups,
                                    invalid_groups)
    /\ all_rows' = <<>>                \* not read again in the iteration
    /\ fetchCalls' = IF fetchCalls.ok \/ fetchCalls.calls = <<>> THEN NoFetch
                     ELSE [fetchCalls EXCEPT !.failed = TRUE]
    /\ LET uniq == UniqRows(all_rows, <<>>)
       IN  /\ cur' = [same |-> prev.has /\ uniq = prev.F
                               /\ current_target_groups = prev.G
                               /\ day_store = prev.store,
                      full |-> prev.full, len0 |-> Len(day_store.sent), F |-> uniq]
           /\ IF dispatch_tasks' = <<>>
              THEN /\ pc' = AfterIteration(once) /\ idx' = 0
                   /\ prev' = EndOfCycle(uniq, day_store)
              ELSE pc' = "dispatch" /\ idx' = 1 /\ prev' = NoPrev
    /\ gi' = 0
    /\ loc' = NoLoc
    /\ calls' = <<>>
    /\ UNCHANGED <<ord, sup, kv, wiped, futures, pace, rd, current_api_token, accounts, current_start_date, iters, rounds, tk, goneSeen,
                   envVars, pDaily, attempts, active_day, day_store,
                   current_target_groups, current_limit, update_marker,
                   invalid_groups, token_cache, pending, nextId,
                   okCount, lastOk, fetchedKeys, stopVars>>

\* ---------------------------------------------------------------------
\* Dispatch of one message (run_loop, lines 1067-1163)
\* ---------------------------------------------------------------------
Task == dispatch_tasks[idx]
\* the history of calls keeps, of an answer, whether it was ok, a rate limit,
\* "not modified", or any other failure
LogRes(r) == IF r \in {"ok", "rate", "notmod"} THEN r ELSE "fail"
Ev(op, res) == [op |-> op, res |-> LogRes(res)]
Sleep == [op |-> "sleep", res |-> "-"]
PostEvents(posts) == [i \in 1..Len(posts) |-> Ev("post", posts[i])]

\* lines 1099-1129: the send branch for one group, given the answers of up to
\* four POSTs.  ok: a send call returned ok; gone: "chat not found".
SendPhase(s1, s2, s3, s4) ==
    LET first == send_telegram_message(s1, s2)
        second == send_telegram_message(s3, s4)
        log1 == PostEvents(first.posts)
        log2 == <<Sleep>> \o PostEvents(second.posts)
    IN  IF first.res = "raise" THEN [ok |-> FALSE, gone |-> FALSE, calls |-> log1]
        ELSE IF first.res = "ok" THEN [ok |-> TRUE, gone |-> FALSE, calls |-> log1]
        ELSE IF HasRetryAfter(first.res)
        THEN IF second.res = "raise"
             THEN [ok |-> FALSE, gone |-> FALSE, calls |-> log1 \o log2]
             ELSE [ok |-> second.res = "ok", gone |-> second.res = "gone",
                   calls |-> log1 \o log2]
        ELSE [ok |-> FALSE, gone |-> first.res = "gone", calls |-> log1]

\* every outcome of the send branch, over all answers of the four POSTs
SendOutcomes == {SendPhase(s1, s2, s3, s4) : s1 \in SendResp, s2 \in SendResp,
                                              s3 \in SendResp, s4 \in SendResp}

\* every outcome of one edit call, over all answers of its two POSTs
EditOutcomes == {edit_telegram_message(e1, e2) : e1 \in EditResp, e2 \in EditResp}

\* variant: the send is made whatever the edit answered
NeedSend_Always(editRes) == TRUE

\* line 1099: a send is made when the edit gave no ok answer (or was not made)
NeedSend(editRes) == editRes \notin {"ok", "notmod"}

\* variant: the handles of the earlier messages win over the new ones
MergedMap_KeepOld(prev_map, next_map) ==
    [d \in (DOMAIN prev_map) \cup (DOMAIN next_map) |->
        IF d \in DOMAIN prev_map THEN prev_map[d] ELSE next_map[d]]

\* lines 1143-1144: merged_map = dict(prev_map); merged_map.update(next_map)
MergedMap(prev_map, next_map) ==
    [d \in (DOMAIN prev_map) \cup (DOMAIN next_map) |->
        IF d \in DOMAIN next_map THEN next_map[d] ELSE prev_map[d]]

\* lines 1072-1082: locals of one task
BeginMessage ==
    /\ pc = "dispatch"
    /\ gi = 0
    /\ loc' = [delivered_set |-> DeliveredSet(day_store, msg_key(Task.item)),
               prev_map |-> Get(day_store.latest_by_thread, thread_key(Task.item), EmptyMap),
               next_map |-> EmptyMap, sent_info |-> <<>>, any_sent |-> FALSE,
               attempted |-> {}]
    /\ gi' = 1
    /\ calls' = <<>>
    /\ UNCHANGED <<ord, sup, kv, wiped, futures, pace, rd, current_api_token, fetchCalls, accounts, current_start_date, iters, rounds, tk, goneSeen,
                   envVars, pDaily, pc, attempts, active_day, day_store,
                   current_target_groups, current_limit, update_marker,
                   invalid_groups, token_cache, pending, all_rows, rows,
                   dispatch_tasks, idx, nextId, okCount, lastOk, fetchedKeys,
                   prev, cur, stopVars>>

\* variant: a success is not entered into the delivered set
Succeed_NotDelivered(gid, msg_id, log) ==
    /\ loc' = [loc EXCEPT !.any_sent = TRUE,
                          !.next_map = Put(@, gid, msg_id),
                          !.sent_info = Append(@, [chat_id |-> gid, message_id |-> msg_id]),
                          !.attempted = @ \cup {gid}]
    /\ okCount' = [okCount EXCEPT ![<<msg_key(Task.item), gid>>] = @ + 1]
    /\ lastOk' = [lastOk EXCEPT ![<<thread_key(Task.item), gid>>] = msg_id]
    /\ ord' = IF ord.on
              THEN [ord EXCEPT !.live[<<thread_key(Task.item), gid>>] =
                                   msg_key(Task.item)]
              ELSE ord
    /\ calls' = log
    /\ UNCHANGED <<invalid_groups, goneSeen>>

\* lines 1131-1139: bookkeeping of a success for group gid with handle msg_id
Succeed(gid, msg_id, log) ==
    /\ loc' = [loc EXCEPT !.any_sent = TRUE,
                          !.next_map = Put(@, gid, msg_id),
                          !.sent_info = Append(@, [chat_id |-> gid, message_id |-> msg_id]),
                          !.delivered_set = @ \cup {gid},
                          !.attempted = @ \cup {gid}]
    /\ okCount' = [okCount EXCEPT ![<<msg_key(Task.item), gid>>] = @ + 1]
    /\ lastOk' = [lastOk EXCEPT ![<<thread_key(Task.item), gid>>] = msg_id]
    /\ ord' = IF ord.on
              THEN [ord EXCEPT !.live[<<thread_key(Task.item), gid>>] =
                                   msg_key(Task.item)]
              ELSE ord
    /\ calls' = log
    /\ UNCHANGED <<invalid_groups, goneSeen>>

\* lines 1109-1111, 1119-1129: the group is left for a later cycle
Fail(gid, gone, log) ==
    /\ loc' = [loc EXCEPT !.attempted = @ \cup {gid}]
    /\ invalid_groups' = IF gone THEN invalid_groups \cup {gid} ELSE invalid_groups
    /\ goneSeen' = IF gone THEN goneSeen \cup {gid} ELSE goneSeen
    /\ calls' = log
    /\ UNCHANGED <<okCount, lastOk, ord>>

\* lines 1083-1139: one group of the current task; history says whether the
\* history of the calls made for the group is kept
Attempt(history) ==
    /\ pc = "dispatch"
    /\ gi \in 1..Len(Task.groups)
    /\ gi' = gi + 1
    /\ LET gid == Task.groups[gi]
           prev_msg_id_raw == Get(loc.prev_map, gid, 0)
           Kept(log) == IF history THEN log ELSE <<>>
       IN  IF gid \in invalid_groups
           THEN /\ calls' = <<>>
                /\ UNCHANGED <<loc, invalid_groups, nextId, okCount, lastOk,
                               recalled, attempts, goneSeen, ord>>
           ELSE /\ attempts + changes < MaxSteps
                /\ attempts' = attempts + 1
                /\ recalled' = (recalled \/ <<msg_key(Task.item), gid>> \in okBefore)
                /\ \E editRes \in (IF prev_msg_id_raw # 0 THEN EditOutcomes ELSE {"none"}) :
                     LET elog == IF prev_msg_id_raw # 0
                                 THEN <<Ev("edit", editRes)>> ELSE <<>>
                     IN  IF ~NeedSend(editRes)
                         THEN /\ Succeed(gid, prev_msg_id_raw, Kept(elog))
                              /\ UNCHANGED nextId
                         ELSE \E r \in SendOutcomes :
                                IF r.ok
                                THEN /\ Succeed(gid, nextId[gid], Kept(elog \o r.calls))
                                     /\ nextId' = [nextId EXCEPT ![gid] = @ + 1]
                                ELSE /\ Fail(gid, r.gone, Kept(elog \o r.calls))
                                     /\ UNCHANGED nextId
    /\ UNCHANGED <<sup, kv, wiped, futures, pace, rd, current_api_token, fetchCalls, accounts, current_start_date, iters, rounds, tk, envVars,
                   pDaily, pc, active_day, day_store,
                   current_target_groups, current_limit, update_marker,
                   token_cache, pending, all_rows, rows, dispatch_tasks, idx,
                   fetchedKeys, prev, cur, stops, okBefore>>

\* variant: the entry does not name the destinations
SentEntry_NoGroups(mkey, tkey, sent_info) ==
    [mkey |-> mkey, thread_key |-> tkey, groups |-> <<>>]

\* lines 1147-1159: the entry of the sent log for one dispatch of a message
SentEntry(mkey, tkey, sent_info) ==
    [mkey |-> mkey, thread_key |-> tkey, groups |-> sent_info]

\* variant: the key is not recorded as seen
SeenAfter_Skip(seen, mkey) == seen

\* line 1142: seen_keys.add(mkey)
SeenAfter(seen, mkey) == seen \cup {mkey}

\* lines 1141-1163: record and persist the outcome of the task, then go on
\* to the next task or, after the last one, to sleep
FinishMessage ==
    /\ pc = "dispatch"
    /\ gi = Len(Task.groups) + 1
    /\ LET mkey == msg_key(Task.item)
           tkey == thread_key(Task.item)
           entry == SentEntry(mkey, tkey, loc.sent_info)
           written == [seen_keys |-> SeenAfter(day_store.seen_keys, mkey),
                       sent |-> Append(day_store.sent, entry),
                       latest_by_thread |-> Put(day_store.latest_by_thread, tkey,
                                                MergedMap(loc.prev_map, loc.next_map)),
                       delivered_by_msg |-> Put(day_store.delivered_by_msg, mkey,
                                                loc.delivered_set)]
       IN  /\ IF loc.any_sent \/ loc.delivered_set # {}
              THEN /\ day_store' = written
                   /\ pDaily' = save_daily_store(pDaily, active_day, written)
              ELSE UNCHANGED <<day_store, pDaily>>
           /\ IF idx = Len(dispatch_tasks)
              THEN /\ pc' = AfterIteration(once)
                   /\ prev' = EndOfCycle(cur.F, day_store')
                   /\ dispatch_tasks' = <<>> /\ idx' = 0
              ELSE /\ pc' = "dispatch" /\ prev' = prev
                   /\ dispatch_tasks' = dispatch_tasks /\ idx' = idx + 1
    /\ gi' = 0
    /\ loc' = NoLoc
    /\ calls' = <<>>
    /\ UNCHANGED <<ord, sup, kv, wiped, futures, pace, rd, current_api_token, fetchCalls, accounts, current_start_date, iters, rounds, tk, goneSeen,
                   envVars, attempts, active_day, current_target_groups,
                   current_limit, update_marker, invalid_groups, token_cache,
                   pending, all_rows, rows, nextId, okCount,
                   lastOk, fetchedKeys, cur, stopVars>>

\* ---------------------------------------------------------------------
\* Environment.  The sender reads the date and the configuration only at
\* the top of an iteration (and at start), so changes are taken between
\* iterations; one admin step stands for the changes made between two reads.
\* ---------------------------------------------------------------------
Idle == pc \in {"top", "sleep", "stopped"}

NewDay ==
    /\ Idle
    /\ today < MaxDay
    /\ attempts + changes < MaxSteps
    /\ today' = today + 1
    /\ changes' = changes + 1
    /\ UNCHANGED <<ord, sup, kv, wiped, futures, pace, rd, current_api_token, accounts, current_start_date, once, iters, rounds, tk,
                   goneSeen, cfg, pDaily, pc, attempts, active_day, day_store,
                   current_target_groups, current_limit, update_marker,
                   invalid_groups, token_cache, cycleVars, nextId, histVars, stopVars>>

\* panel_bot / admin_cli: the groups are saved without a new marker
AdminGroups(g) ==
    /\ Idle
    /\ attempts + changes < MaxSteps
    /\ g # cfg.groups
    /\ changes' = changes + 1
    /\ cfg' = [cfg EXCEPT !.groups = g]
    /\ UNCHANGED <<ord, sup, kv, wiped, futures, pace, rd, current_api_token, accounts, current_start_date, once, iters, rounds, tk,
                   goneSeen, today, pDaily, pc, attempts, active_day,
                   day_store,
                   current_target_groups, current_limit, update_marker,
                   invalid_groups, token_cache, cycleVars, nextId, histVars, stopVars>>

\* panel_bot.mark_runtime_change / request_messages_refresh: every change of
\* the runtime config (pause, limit, plain refresh) writes a new marker
AdminRuntime(en, l) ==
    /\ Idle
    /\ attempts + changes < MaxSteps
    /\ changes' = changes + 1
    /\ cfg' = [cfg EXCEPT !.enabled = en, !.limit = l, !.marker = @ + 1]
    /\ UNCHANGED <<ord, sup, kv, wiped, futures, pace, rd, current_api_token, accounts, current_start_date, once, iters, rounds, tk,
                   goneSeen, today, pDaily, pc, attempts, active_day,
                   day_store,
                   current_target_groups, current_limit, update_marker,
                   invalid_groups, token_cache, cycleVars, nextId, histVars, stopVars>>

\* panel_bot.save_accounts: the accounts are saved without a new marker
AdminAccounts(a) ==
    /\ Idle
    /\ attempts + changes < MaxSteps
    /\ a # cfg.accounts
    /\ changes' = changes + 1
    /\ cfg' = [cfg EXCEPT !.accounts = a]
    /\ UNCHANGED <<ord, sup, kv, wiped, futures, pace, rd, current_api_token, once, iters, rounds, tk, goneSeen, today, pDaily, pc, attempts,
                   active_day, day_store, current_target_groups, current_limit,
                   update_marker, accounts, current_start_date, invalid_groups,
                   token_cache, cycleVars, nextId, histVars, stopVars>>

\* panel_bot.set_runtime_start_date, followed by mark_runtime_change
AdminStartDate(d) ==
    /\ Idle
    /\ attempts + changes < MaxSteps
    /\ d # cfg.start_date
    /\ changes' = changes + 1
    /\ cfg' = [cfg EXCEPT !.start_date = d, !.marker = @ + 1]
    /\ UNCHANGED <<ord, sup, kv, wiped, futures, pace, rd, current_api_token, once, iters, rounds, tk, goneSeen, today, pDaily, pc, attempts,
                   active_day, day_store, current_target_groups, current_limit,
                   update_marker, accounts, current_start_date, invalid_groups,
                   token_cache, cycleVars, nextId, histVars, stopVars>>

\* panel_bot, lines 2602-2611 ("messages_delete_confirm"), and admin_cli
\* clear_store: clear_daily_store() deletes the store of every day, at any
\* point of the sender's cycle; no marker is written
AdminClear ==
    /\ pc \notin {"start", "stopped", "returned"}
    /\ attempts + changes < MaxSteps
    /\ pDaily # EmptyMap
    /\ changes' = changes + 1
    /\ pDaily' = EmptyMap
    /\ wiped' = wiped \cup UNION {Range(pDaily[d].sent) : d \in DOMAIN pDaily}
    /\ UNCHANGED <<ord, sup, kv, futures, pace, rd, current_api_token, accounts,
                   current_start_date, once, iters, rounds, tk, goneSeen, today,
                   cfg, pc, attempts, active_day, day_store,
                   current_target_groups, current_limit, update_marker,
                   invalid_groups, token_cache, cycleVars, nextId, histVars,
                   stopVars>>

\* the process is killed or interrupted: everything in memory is lost
Stop ==
    /\ pc \notin {"start", "stopped", "returned"}
    /\ stops < MaxStops
    /\ attempts + changes < MaxSteps
    /\ stops' = stops + 1
    /\ changes' = changes + 1
    /\ pc' = "stopped"
    /\ okBefore' = okBefore \cup {p \in Pairs : okCount[p] > 0}
    /\ day_store' = EmptyStore
    /\ current_target_groups' = <<>>
    /\ current_limit' = 0
    /\ update_marker' = 0
    /\ accounts' = <<>>
    /\ current_start_date' = ""
    /\ invalid_groups' = {}
    /\ pending' = {}
    /\ all_rows' = <<>>
    /\ rows' = <<>>
    /\ dispatch_tasks' = <<>>
    /\ idx' = 0
    /\ gi' = 0
    /\ loc' = NoLoc
    /\ calls' = <<>>
    /\ goneSeen' = {}
    /\ fetchCalls' = NoFetch
    /\ futures' = EmptyMap
    /\ UNCHANGED <<ord, sup, kv, wiped, pace, rd, current_api_token, once, iters, rounds, tk, today, cfg, pDaily, attempts,
                   active_day, token_cache, nextId,
                   okCount, lastOk, fetchedKeys, prev, cur, recalled>>

\* the steps of run_loop
Sender(history) ==
    \/ Start
    \/ Top
    \/ GetTokens(FALSE)
    \/ \E src \in AccountNames \cup {ApiTokenSrc} : FutureDone(src, history)
    \/ Merge
    \/ BeginMessage
    \/ Attempt(history)
    \/ FinishMessage

\* the sender alone, with the history of the calls of every attempt
Next == Sender(TRUE)

Spec == Init /\ [][Next]_vars

\* the sender under a changing date and configuration
NextEnv ==
    \/ Sender(FALSE)
    \/ NewDay
    \/ \E g \in GroupLists : AdminGroups(g)
    \/ \E en \in BOOLEAN, l \in Limits : AdminRuntime(en, l)

SpecEnv == Init /\ [][NextEnv]_vars

\* the sender under every change of what a hot reload reads
NextReload ==
    \/ Sender(FALSE)
    \/ \E g \in GroupLists : AdminGroups(g)
    \/ \E en \in BOOLEAN, l \in Limits : AdminRuntime(en, l)
    \/ \E a \in AccountLists : AdminAccounts(a)
    \/ \E d \in StartDates : AdminStartDate(d)

\* a looping process that starts with a limit of 1
InitReload == Init /\ ~once /\ cfg.limit = 1

SpecReload == InitReload /\ [][NextReload]_vars

\* the sender with process stops and restarts
NextStop == Sender(FALSE) \/ Stop

SpecStop == Init /\ [][NextStop]_vars

\* the sender alone under the scheduling of a sequential program: the loop
\* takes its next step whenever it has one
NextLive == Sender(FALSE)

SpecLive == Init /\ [][NextLive]_vars /\ WF_vars(NextLive)

\* the same with a limit of 1, under which the deliveries of one iteration
\* fit in the explored steps
InitOnce == Init /\ cfg.limit = 1

SpecOnce == InitOnce /\ [][NextLive]_vars /\ WF_vars(NextLive)

\* the sender alone, with or without a configured session token
InitFetch ==
    /\ InitSender /\ tk = NoTk /\ rd = NoRd /\ pace = NoPace /\ kv = NoKv /\ sup = NoSup
    /\ ord = NoOrd
    /\ current_api_token \in BOOLEAN /\ cfg.limit = 1

SpecFetch == InitFetch /\ [][Next]_vars

\* the sender alone, with the history of what every post shows
InitOrder ==
    /\ InitSender /\ tk = NoTk /\ current_api_token = TRUE /\ rd = NoRd
    /\ pace = NoPace /\ kv = NoKv /\ sup = NoSup /\ ord = [NoOrd EXCEPT !.on = TRUE]
    /\ once = FALSE /\ cfg.limit = 1

SpecOrder == InitOrder /\ [][NextLive]_vars

\* the sender over a change of day, with the history of the deliveries
\* made on the days that ended
InitRollover ==
    /\ InitSender /\ tk = NoTk /\ current_api_token = TRUE /\ rd = NoRd
    /\ pace = NoPace /\ kv = NoKv /\ sup = NoSup /\ ord = [NoOrd EXCEPT !.roll = TRUE]
    /\ once = FALSE

NextRollover == Sender(FALSE) \/ NewDay

SpecRollover == InitRollover /\ [][NextRollover]_vars

\* the supervisor, before main() runs, with or without a managed bot
InitSup ==
    /\ InitSender /\ tk = NoTk /\ current_api_token = TRUE /\ rd = NoRd
    /\ pace = NoPace /\ kv = NoKv /\ ord = NoOrd
    /\ once = FALSE /\ cfg.limit = 1 /\ pDaily = EmptyMap
    /\ \E m \in ManagedBots : sup = [NoSup EXCEPT !.pc = "main", !.cfg_managed = m]

\* the loop of main() goes on: time.sleep(1) returns
SpecSup == InitSup /\ [][NextSup]_vars /\ WF_vars(SupStep)

\* msg_key on every pair of fetched rows
InitKey ==
    /\ InitSender /\ tk = NoTk /\ current_api_token = TRUE /\ rd = NoRd
    /\ pace = NoPace /\ ord = NoOrd /\ sup = NoSup
    /\ once = FALSE /\ cfg.limit = 0 /\ pDaily = EmptyMap
    /\ \E a \in FetchedRows, b \in FetchedRows :
          kv = [NoKv EXCEPT !.on = TRUE, !.a = a, !.b = b]

SpecKey == InitKey /\ [][KeyOf]_vars

\* the sender, and an admin who clears the saved messages and asks for a
\* refresh
NextClear ==
    \/ Sender(FALSE)
    \/ AdminClear
    \/ AdminRuntime(TRUE, 1)

SpecClear == InitReload /\ [][NextClear]_vars

\* the sender with the worker threads of its fetch pool
NextThreads ==
    \/ Start
    \/ Top
    \/ GetTokens(TRUE)
    \/ \E src \in AccountNames \cup {ApiTokenSrc} : WorkerDone(src)
    \/ \E src \in AccountNames \cup {ApiTokenSrc} : FutureDone(src, FALSE)
    \/ Merge
    \/ BeginMessage
    \/ Attempt(FALSE)
    \/ FinishMessage

SpecThreads == InitOnce /\ [][NextThreads]_vars

TypeOK ==
    /\ current_api_token \in BOOLEAN
    /\ pc \in {"start", "top", "tokens", "fetch", "dispatch", "sleep", "stopped",
             "returned"}
    /\ iters \in 0..2 /\ rounds \in 0..2
    /\ today \in Days /\ active_day \in Days
    /\ invalid_groups \subseteq Dest
    /\ token_cache \subseteq AccountNames

\* =====================================================================
\* Properties
\* =====================================================================
Delivered(k) == Get(day_store.delivered_by_msg, k, {})
Handle(t, d) == Get(Get(day_store.latest_by_thread, t, EmptyMap), d, 0)
Running == pc \notin {"start", "stopped"}
AtBoundary == Running /\ (pc # "dispatch" \/ gi = 0)
PostIdx == {i \in 1..Len(calls) : calls[i].op = "post"}
AfterAttempt == pc = "dispatch" /\ gi >= 2 /\ calls # <<>>
LastGroup == Task.groups[gi - 1]

\* C1: within one day and one run of the loop, every pair of a message key
\* and a destination has at most one successful delivery call (edit or
\* send), over any number of cycles and failures on other destinations.
C1_AtMostOnce == \A p \in Pairs : okCount[p] <= 1

\* a message delivered to one group in an earlier cycle is dispatched again,
\* to the groups it still misses only
C1_Witness ==
    /\ pc = "dispatch" /\ gi >= 2
    /\ \E d \in Dest : /\ okCount[<<msg_key(Task.item), d>>] = 1
                       /\ d \notin Range(Task.groups)
                       /\ loc.attempted # {}

\* C2 as stated: a second cycle on the same fetch result and groups, from
\* the store the first cycle left, never makes the sent list longer,
\* whatever the outcomes of the calls were.
C2_Original == (pc = "sleep" /\ cur.same) => Len(day_store.sent) = cur.len0

\* C2 amended: a second cycle on the same fetch result and groups, from the
\* store the first cycle left, does not make the sent list longer when the
\* first cycle left every message of the fetch result delivered to every
\* configured group.
C2_Idempotent ==
    (pc = "sleep" /\ cur.same /\ cur.full) => Len(day_store.sent) = cur.len0

\* a re-run on a non-empty fetch result that was fully delivered before
C2_Witness ==
    /\ pc = "sleep" /\ cur.same /\ cur.full
    /\ cur.F # <<>> /\ current_target_groups # <<>> /\ cur.len0 > 0

\* C3: after a stop and a restart on the same day, no pair (key, group)
\* that had a successful send or edit before the stop gets another call.
C3_NoRepeatAfterRestart == ~recalled

\* C4: a send to a group is made only if the thread has no handle for the
\* group or the edit of that handle was tried first and failed; after an
\* edit that succeeded no send is made; a recorded handle is always edited
\* first.
C4_EditBeforeSend ==
    AfterAttempt =>
        LET had == Handle(thread_key(Task.item), LastGroup) # 0
            edited == calls[1].op = "edit"
        IN  /\ had <=> edited
            /\ (PostIdx # {} /\ had) => calls[1] = Ev("edit", "err")
            /\ (edited /\ calls[1].res \in {"ok", "notmod"}) => PostIdx = {}
            /\ \A i \in 2..Len(calls) : calls[i].op # "edit"

\* an edit that failed was followed by a send
C4_Witness ==
    /\ AfterAttempt
    /\ Len(calls) >= 2 /\ calls[1] = Ev("edit", "err") /\ calls[2].op = "post"

\* C5: between messages, every recorded latest_by_thread[T][D] is the handle
\* of the last successful edit or send made to D for a message of T (so a
\* failure never changes it, nor does a success for another group).
C5_LatestIsLastSuccess ==
    AtBoundary =>
        \A t \in DOMAIN day_store.latest_by_thread :
            \A d \in DOMAIN day_store.latest_by_thread[t] :
                day_store.latest_by_thread[t][d] = lastOk[<<t, d>>]

\* a handle recorded for a thread was replaced by the handle of a later send
C5_Witness ==
    /\ pc = "sleep"
    /\ \E t \in Threads, d \in Dest :
          /\ Handle(t, d) = 3
          /\ \E i \in 1..Len(day_store.sent) :
                /\ day_store.sent[i].thread_key = t
                /\ [chat_id |-> d, message_id |-> 2] \in Range(day_store.sent[i].groups)

C8_Rotation ==
    [][(pc \in {"top", "sleep"} /\ active_day' # active_day) =>
          /\ active_day' = today
          /\ DOMAIN pDaily' \subseteq {today}
          /\ day_store' = IF today \in DOMAIN pDaily THEN pDaily[today] ELSE EmptyStore]_vars

\* a rotation has deleted the record of a day on which a send had succeeded
C8_Witness ==
    /\ pc = "tokens" /\ active_day = 2
    /\ pDaily = EmptyMap /\ day_store = EmptyStore
    /\ \E d \in Dest : nextId[d] > 2

\* C9: for one message and one group at most two sendMessage requests are
\* made, the second only after a first answer with retry_after and a sleep;
\* a rate limit followed by a successful retry records the group once.
C9_RetryOnce ==
    AfterAttempt =>
        /\ Cardinality(PostIdx) <= 2
        /\ \A i, j \in PostIdx :
              i < j => /\ calls[i].res = "rate"
                       /\ \E z \in (i + 1)..(j - 1) : calls[z] = Sleep
        /\ (\E i \in PostIdx : calls[i].res = "ok") =>
              Cardinality({n \in 1..Len(loc.sent_info) :
                              loc.sent_info[n].chat_id = LastGroup}) = 1

\* C10: every owed valid group of a task gets an attempt whatever happened
\* to the groups before it; a group is in a delivered set only after a
\* success; and a partly delivered message that is fetched again is
\* dispatched again, for exactly the groups it still misses.
C10_FailureIsolation ==
    /\ (pc = "dispatch" /\ gi = Len(Task.groups) + 1) =>
          \A g \in Range(Task.groups) : g \in loc.attempted \/ g \in invalid_groups
    /\ AtBoundary => \A k \in Keys : \A d \in Delivered(k) : okCount[<<k, d>>] >= 1
    /\ (pc = "dispatch" /\ idx = 1 /\ gi = 0) =>
          \A r \in Range(cur.F) :
              LET owed == SelectSeq(current_target_groups,
                                    LAMBDA g : g \notin Delivered(msg_key(r))
                                               /\ g \notin invalid_groups)
              IN  (Delivered(msg_key(r)) # {} /\ owed # <<>>) =>
                      \E i \in 1..Len(dispatch_tasks) :
                          dispatch_tasks[i] = [item |-> r, groups |-> owed]

\* C11: once a send to a group was answered "chat not found", the group is
\* in the invalid set and no send or edit call is made to it in any later
\* step of the process, hot reloads included.
C11_NoCallAfterGone ==
    [][/\ goneSeen' \subseteq invalid_groups'
       /\ (attempts' # attempts) => Task.groups[gi] \notin goneSeen]_vars

Owed(r, d) ==
    /\ d \in Range(current_target_groups)
    /\ d \notin Delivered(msg_key(r))
    /\ d \notin invalid_groups
Attempted(r, d) == pc = "dispatch" /\ gi >= 1 /\ Task.item = r /\ d \in loc.attempted

\* C12: if the loop keeps running cycles, a message is among the rows that
\* the sources return in every cycle, and it keeps owing a valid group, then
\* a delivery attempt of the message to that group is eventually made.
C12_EventuallyAttempted ==
    \A r \in Rows, d \in Dest :
        (/\ []<>(pc = "fetch")
         /\ [](pc \in {"dispatch", "sleep"} => msg_key(r) \in fetchedKeys)
         /\ [](pc \in {"dispatch", "sleep"} => Owed(r, d)))
            => <>Attempted(r, d)

\* storage.get_daily for the active day, as load_daily_store reads it
Persisted == IF active_day \in DOMAIN pDaily THEN pDaily[active_day] ELSE EmptyStore

\* C13: when the dispatcher starts on a message and at the end of the
\* cycle, the persisted store of the active day equals the store in memory,
\* and every group that had a successful edit or send for a message is in
\* the persisted delivered set of the message.
C13_DurableBeforeNext ==
    ((pc = "dispatch" /\ gi = 0) \/ pc \in {"sleep", "returned"}) =>
        /\ Persisted = day_store
        /\ \A p \in Pairs :
              okCount[p] >= 1 => p[2] \in Get(Persisted.delivered_by_msg, p[1], {})

\* the dispatcher starts on the second message of a cycle after a success
\* for the first
C13_Witness ==
    /\ pc = "dispatch" /\ gi = 0 /\ idx >= 2
    /\ \E d \in Dest : okCount[<<msg_key(dispatch_tasks[idx - 1].item), d>>] >= 1

\* C14: get_or_refresh_account_token returns the cached token of the account
\* without a login call exactly when a token is cached for the account name
\* with expires_at - now > 300, also when the cache was loaded from
\* persistence; otherwise it makes exactly one login call and returns the
\* token of that call, or the failure value when the login fails.
C14_TokenReuse ==
    [][tk'.calls = tk.calls + 1 =>
          LET a == Accounts[1]
              hit == /\ a \in DOMAIN tk.token_cache
                     /\ tk.token_cache[a].token # ""
                     /\ tk.token_cache[a].expires_at - tk.now > 300
          IN  IF hit
              THEN tk'.ret = tk.token_cache[a].token /\ tk'.logins = tk.logins
              ELSE tk'.logins = tk.logins + 1 /\ tk'.ret = tk'.answer]_vars

C14_Witness ==
    /\ tk.calls = 2 /\ tk.logins = 1 /\ tk.loaded
    /\ tk.ret = "new" /\ tk.answer = "" /\ tk.now = 6899

C17_HotReload ==
    [][(pc \in {"top", "sleep"} /\ changes' = changes) =>
          IF cfg.marker # update_marker
          THEN /\ update_marker' = cfg.marker
               /\ accounts' = cfg.accounts
               /\ current_target_groups' = cfg.groups
               /\ current_start_date' =
                      IF cfg.start_date # "" THEN cfg.start_date ELSE EnvStartDate
               /\ current_limit' = cfg.limit
          ELSE /\ accounts' = accounts
               /\ current_target_groups' = current_target_groups]_vars

\* a fetch round runs on groups, a start date and a limit that a hot reload
\* brought in
C17_Witness ==
    /\ pc = "fetch" /\ update_marker # 0
    /\ current_target_groups = <<"D1">>
    /\ current_start_date = "2025-02-01" /\ current_limit = 0

\* C18: when the process has exited on an interrupt, every group that had a
\* successful edit or send for a message is in the persisted delivered set
\* of the message.
C18_PersistedAtExit ==
    pc = "stopped" =>
        \A p \in Pairs :
            okCount[p] >= 1 => p[2] \in Get(Persisted.delivered_by_msg, p[1], {})

\* C19: when the edit for a group is answered "message is not modified", no
\* send is made to the group, the group enters the delivered set of the
\* message and its handle stays the one recorded before the edit; and what
\* the dispatch of a message gathered is what its end writes to the store.
C19_NotModified ==
    [][/\ (/\ pc = "dispatch" /\ gi >= 1 /\ gi' = gi + 1
           /\ calls' # <<>> /\ calls'[1] = Ev("edit", "notmod")) =>
             LET g == Task.groups[gi]
                 old == Handle(thread_key(Task.item), g)
             IN  /\ Len(calls') = 1
                 /\ nextId' = nextId
                 /\ g \in loc'.delivered_set
                 /\ old # 0 /\ loc'.next_map[g] = old
       /\ (pc = "dispatch" /\ gi >= 1 /\ gi' = 0 /\ loc.any_sent) =>
             LET written == day_store'
                 item == Task.item
             IN  /\ written.delivered_by_msg[msg_key(item)] = loc.delivered_set
                 /\ \A g \in DOMAIN loc.next_map :
                       written.latest_by_thread[thread_key(item)][g] = loc.next_map[g]]_vars

\* an edit was answered "message is not modified"
C19_Witness == AfterAttempt /\ calls = <<Ev("edit", "notmod")>>

\* C20: the merged list handed to dispatch holds one row for every distinct
\* key returned by a source in the cycle, however many that is, whatever
\* the limit.
C20_LimitNotOnMerge ==
    pc \in {"dispatch", "sleep", "returned"} =>
        /\ fetchedKeys \subseteq {msg_key(r) : r \in Range(rows)}
        /\ Len(rows) = Cardinality(fetchedKeys)

\* C21: the merged list of a cycle holds exactly one row for each distinct
\* key among the rows returned by the sources of the cycle (for a key
\* returned more than once, the row merged last).
C21_OneRowPerKey ==
    pc = "dispatch" =>
        \A k \in fetchedKeys :
            Cardinality({i \in 1..Len(rows) : msg_key(rows[i]) = k}) = 1

FetchesOf(c) == {i \in 1..Len(c) : c[i].op = "fetch"}
\* the calls that the claimed retry makes after a first fetch that failed
RetriedOnce(c) ==
    /\ Len(c) >= 2 /\ c[2].op = "login"
    /\ IF c[2].ok THEN Len(c) = 3 /\ c[3].op = "fetch" ELSE Len(c) = 2

\* C22 as stated: every source whose fetch fails gets exactly one re-login
\* and, unless that fails, exactly one retry fetch.
C22_Original ==
    (pc = "fetch" /\ fetchCalls.calls # <<>> /\ ~fetchCalls.calls[1].ok) =>
        RetriedOnce(fetchCalls.calls)

\* C22: an account source whose fetch fails gets exactly one re-login and,
\* unless that fails, exactly one retry fetch; the session-token source is
\* given up after its first failure; no source is fetched more than twice,
\* and the round goes on with the other sources.
C22_AccountRetry ==
    (pc = "fetch" /\ fetchCalls.calls # <<>>) =>
        LET c == fetchCalls.calls
        IN  /\ c[1].op = "fetch"
            /\ Cardinality(FetchesOf(c)) <= 2
            /\ c[1].ok => Len(c) = 1
            /\ (~c[1].ok /\ fetchCalls.src # ApiTokenSrc) => RetriedOnce(c)
            /\ (~c[1].ok /\ fetchCalls.src = ApiTokenSrc) => Len(c) = 1

\* the retry of an account failed while another source is still to be consumed
C22_Witness ==
    /\ pc = "fetch" /\ pending # {}
    /\ fetchCalls.src \in AccountNames
    /\ fetchCalls.calls = <<Up("fetch", FALSE), Up("login", TRUE), Up("fetch", FALSE)>>

\* C23: when no fetch of a round returned (every source failed, or there was
\* no source with a token), the merge makes no send or edit call, leaves the
\* store as it was, in memory and on disk, and goes on to sleep (or returns
\* when the loop runs once).
C23_TotalFailure ==
    [][(pc = "fetch" /\ pending = {} /\ ~fetchCalls.ok /\ pc' # "fetch") =>
          /\ pc' = IF once THEN "returned" ELSE "sleep"
          /\ dispatch_tasks' = <<>>
          /\ UNCHANGED <<attempts, nextId, day_store, pDaily>>]_vars

\* the loop sleeps after a round in which the retry of the account failed too
C23_Witness ==
    /\ pc = "sleep" /\ fetchCalls.failed
    /\ fetchCalls.calls = <<Up("fetch", FALSE), Up("login", TRUE), Up("fetch", FALSE)>>

\* the accounts whose token round ended with a job
JobAccounts == {rd.jobs[j].idx : j \in 1..Len(rd.jobs)}

\* C24: an account whose login fails in the token round has no fetch call in
\* that iteration, every other account has its fetch job, and in the next
\* iteration a login is attempted again for the account that failed.
C24_LoginLocalRetried ==
    /\ rd.failed \cap rd.fetched = {}
    /\ rd.pc = "fetch" =>
          /\ JobAccounts = (1..Len(rd.accounts)) \ rd.failed
          /\ rd.prevFailed \subseteq rd.tried

\* C25: after a successful login, in the token round or after a failed
\* fetch, and before any further call, the saved cache holds for the name of
\* the account the new token with obtained_at = now and expires_at =
\* obtained_at + 7200; after a failed login the name has in memory, in the
\* cache and on disk what it had before.
C25_TokenPersisted ==
    rd.last.op = "login" =>
        LET name == rd.accounts[rd.last.idx].name
        IN  IF rd.last.ok
            THEN /\ name \in DOMAIN rd.disk
                 /\ rd.disk[name] = [token |-> rd.last.tok, obtained_at |-> rd.now,
                                     expires_at |-> rd.now + 7200]
                 /\ rd.last.tok = LoginToken[rd.accounts[rd.last.idx].email]
            ELSE /\ Get(rd.account_tokens, name, "") = rd.last.mem
                 /\ Get(rd.token_cache, name, NoRow) = rd.last.row
                 /\ Get(rd.disk, name, NoRow) = rd.last.disk

\* a login after a failed fetch replaced an older token; the retry is due
C25_Witness ==
    /\ rd.last.op = "login" /\ rd.last.ok /\ rd.retry # 0
    /\ rd.now = 6899 /\ rd.last.disk.obtained_at = 0 /\ rd.last.disk.token # ""

\* C26: every fetch made for an account uses a token that a login with the
\* credentials of that account returned, also when two accounts carry the
\* same name.
C26_OwnToken ==
    \A f \in rd.fetches : Owner(f.tok) = rd.accounts[f.idx].email

\* C27: two consecutive send operations to a destination, successful or
\* failed, the retry after a rate limit included, are at least the
\* configured minimum interval apart.
C27_MinInterval == pace.gap # -1 => pace.gap >= pace.interval

\* C28: an iteration that begins on a day other than the day of the active
\* store has, also when it is skipped because fetching is paused or no
\* destination is configured, made the rotation: the active day is today and
\* no store of another day is persisted.
C28_PurgeOnRollover ==
    [][(Top /\ today # active_day) =>
          (active_day' = today /\ DOMAIN pDaily' \subseteq {today})]_vars

\* the task has gone through its groups and its outcome is being recorded
Finishing == pc = "dispatch" /\ gi = Len(Task.groups) + 1 /\ gi' = 0

\* C29: after the dispatch of a message in which at least one delivery
\* attempt was made, the key of the message is in seen_keys of the persisted
\* store, whether or not an attempt succeeded.
C29_SeenAfterAttempt ==
    [][(Finishing /\ loc.attempted # {}) =>
          msg_key(Task.item) \in Persisted'.seen_keys]_vars

\* the destinations that the dispatch being recorded delivered to
DeliveredNow == loc.delivered_set \ DeliveredSet(day_store, msg_key(Task.item))

\* C30: the dispatch of a message in which n >= 1 destinations succeed
\* appends exactly one entry to the sent log, in memory and persisted, whose
\* sub-records are those n destinations with their handles; no step of the
\* dispatch removes or rewrites an entry that the log holds.
C30_AuditRecord ==
    [][pc = "dispatch" =>
          LET old == day_store.sent
              new == day_store'.sent
          IN  /\ Len(new) >= Len(old) /\ SubSeq(new, 1, Len(old)) = old
              /\ ~Finishing => new = old
              /\ (Finishing /\ DeliveredNow # {}) =>
                    LET e == new[Len(new)]
                    IN  /\ Len(new) = Len(old) + 1
                        /\ Persisted'.sent = new
                        /\ Len(e.groups) = Cardinality(DeliveredNow)
                        /\ {g.chat_id : g \in Range(e.groups)} = DeliveredNow
                        /\ \A g \in Range(e.groups) :
                              g.message_id = lastOk[<<thread_key(Task.item), g.chat_id>>]]_vars

\* the second entry of the log names the two destinations of its dispatch
C30_Witness ==
    /\ Len(day_store.sent) = 2
    /\ Len(day_store.sent[2].groups) = 2
    /\ Persisted.sent = day_store.sent

\* C31: a step of a worker thread leaves the token cache, the fetched and
\* merged rows and the store, in memory and persisted, as they are; they
\* change only in steps of the controller; and no send or edit call is made
\* while a fetch future of the cycle is not yet consumed.
C31_FetchThenDispatch ==
    [][/\ (\E src \in DOMAIN futures :
              futures[src].state = "running" /\ src \in DOMAIN futures'
                 /\ futures'[src].state = "done") =>
             UNCHANGED <<token_cache, all_rows, rows, dispatch_tasks,
                         day_store, pDaily, attempts, nextId>>
       /\ attempts' # attempts => (futures = EmptyMap /\ pending = {})
       /\ pc' = "dispatch" => futures' = EmptyMap]_vars

\* a worker has returned rows while the other future is still running
C31_Witness ==
    /\ pc = "fetch"
    /\ \E a, b \in DOMAIN futures :
          /\ futures[a].state = "done" /\ futures[a].rows # <<>>
          /\ futures[b].state = "running"

\* C32: while the sender loop runs, the persisted store of the active day is
\* written or deleted in steps of the sender only.
C32_SingleWriter ==
    [][(pc \notin {"start", "stopped", "returned"} /\ Persisted' # Persisted) =>
          changes' = changes]_vars

\* C38: after an admin has deleted the saved day stores while the sender
\* runs, no sent entry that was deleted is in the persisted store again,
\* whether or not a refresh marker is written afterwards.
C38_ClearStays ==
    \A d \in DOMAIN pDaily : wiped \cap Range(pDaily[d].sent) = {}

\* the content that the claim names: the four fields and the first
\* identifier field that is not empty, by name and value (blanks around the
\* value do not count)
SameContent(a, b) ==
    /\ a.number = b.number /\ a.service_name = b.service_name
    /\ a.range = b.range /\ a.message = b.message
    /\ FirstId(a, 1) = FirstId(b, 1)

\* C33: two fetched rows have the same key if and only if they agree on
\* number, service name, range, body and the first non-empty identifier
\* field (name and value); the key of a row is the same in a later cycle.
C33_KeyIsContent ==
    kv.cycles >= 1 =>
        /\ (kv.ka = kv.kb) = SameContent(kv.a, kv.b)
        /\ kv.ka = msg_key_text(kv.a)

\* C34: a post of a thread at a destination that shows a message is never
\* edited to show a message of the thread that was first fetched in an
\* earlier round than the one it shows.
C34_NewerStays ==
    [][\A p \in Threads \X Dest :
          (ord.live[p] # <<>> /\ ord'.live[p] # ord.live[p] /\ lastOk'[p] = lastOk[p]) =>
              ord.first[ord'.live[p]] >= ord.first[ord.live[p]]]_vars

\* the keys of a store whose delivered set is not empty
DeliveredKeys(store) ==
    {k \in DOMAIN store.delivered_by_msg : store.delivered_by_msg[k] # {}}

\* C35: in the store in memory and in every persisted store, seen_keys is
\* exactly the set of keys whose delivered_by_msg entry is a non-empty set.
C35_SeenIsDelivered ==
    /\ day_store.seen_keys = DeliveredKeys(day_store)
    /\ \A d \in DOMAIN pDaily : pDaily[d].seen_keys = DeliveredKeys(pDaily[d])

C35_Witness ==
    /\ active_day \in DOMAIN pDaily
    /\ \E k \in pDaily[active_day].seen_keys :
          /\ k \notin StaleStore.seen_keys
          /\ pDaily[active_day].delivered_by_msg[k] # {}

\* C36: a step of the dispatch that appends an entry to the sent log is one
\* in which at least one destination succeeded, and the entry it appends
\* lists at least one destination.
C36_EntryHasDestination ==
    [][(pc = "dispatch" /\ Len(day_store'.sent) > Len(day_store.sent)) =>
          /\ loc.any_sent
          /\ day_store'.sent[Len(day_store'.sent)].groups # <<>>]_vars

\* C37: a message that was delivered to a destination on a day that ended
\* is not delivered to that destination again after the rotation.
C37_NoRedeliveryAfterRollover ==
    [][\A p \in Pairs : okCount'[p] > okCount[p] => p \notin ord.past]_vars

\* the child that procs holds for the name has exited or was stopped
ChildDown(n) ==
    /\ sup.pc \in {"loop", "restart"}
    /\ n \in DOMAIN sup.procs /\ <<n, sup.procs[n]>> \notin sup.alive

\* the child that procs holds for the name is running
ChildUp(n) == n \in DOMAIN sup.procs /\ <<n, sup.procs[n]>> \in sup.alive

\* the store that a running sender writes: the namespace of its environment
Senders == {c \in sup.alive : c[2].script = "bot.py"}

\* C39: at every moment at most one child is running for each spec name, so
\* that no two running senders write the same store; when a restart starts
\* the new children every old child has been stopped; an iteration without a
\* restart request leaves a running child for every name; and a name whose
\* child is down gets a running child again unless the supervisor is
\* interrupted or the name is taken out of the specs.
C39_OneChildPerName ==
    /\ [](\A a, b \in sup.alive : a[1] = b[1] => a = b)
    /\ [](\A a, b \in Senders : a[2].namespace = b[2].namespace => a = b)
    /\ [][(sup.pc = "restart" /\ sup'.pc = "loop") =>
             (Children(sup.procs) \cap sup.alive = {}
                 /\ Children(sup.procs) \cap sup'.alive = {})]_vars
    /\ [][SupPoll => \A n \in DOMAIN sup'.procs : <<n, sup'.procs[n]>> \in sup'.alive]_vars
    /\ \A n \in Range(SpecNames) :
          ChildDown(n) ~> (ChildUp(n) \/ sup.pc = "done" \/ n \notin DOMAIN sup.procs)

====
